---- MODULE Spec2Model ----
(***************************************************************************)
(* Semantic indexing and retrieval pipeline over NYC 311 incident records  *)
(* (src/project): text normalisation, TF-IDF vectorisation, latent         *)
(* semantic indexing, cosine-similarity search, and the artifact files     *)
(* written by the batch run and read by the search tools.                  *)
(*                                                                         *)
(* Numbers.  The code computes in floating point; the model computes in    *)
(* exact rational arithmetic over integers, so that "equal similarity" is  *)
(* exact equality.  A real number that the library makes irrational is     *)
(* carried as a pair (n, d) standing for n / sqrt(d).                      *)
(***************************************************************************)
EXTENDS Integers, Sequences, FiniteSets, TLC

(***************************************************************************)
(* Bounds of the model.                                                    *)
(***************************************************************************)
MaxDocs == 3
MaxTopK == 4
MaxComponents == 3

MaxClusters == 2

MaxRuns == 2

MaxTopTerms == 2

MaxExamples == 2

MaxFits == 2

\* the longest time between two calls, in steps of ElapseStep tenths of a second
MaxElapse == 2

ElapseStep == 50

\* the number of make_request calls of one execution of the script
MaxRequests == 43

\* the movie ids of the API
MaxId == 3

\* the longest list of movies passed to get_all_similar_pairs
MaxMovies == 2

\* the longest list of results in one response of the API
MaxResults == 6

\* the longest page of results the API returns
MaxPageLen == 120

\* the longest a sleep lasts beyond what was asked, in tenths of a second
MaxLate == 1
\* fixed-point resolution of a cosine between two TF-IDF rows
GramScale == 10

\* the resolution square roots are bounded to, and the one mean weights
\* are compared at
RootScale == 100

ScoreScale == 1000

(***************************************************************************)
(* Integer and rational helpers.                                           *)
(***************************************************************************)
Min(a, b) == IF a <= b THEN a ELSE b

Abs(a) == IF a < 0 THEN -a ELSE a

Sign(a) == IF a < 0 THEN -1 ELSE IF a = 0 THEN 0 ELSE 1

RECURSIVE Gcd(_, _)
Gcd(a, b) == IF b = 0 THEN a ELSE Gcd(b, a % b)

RECURSIVE SqrtFrom(_, _)
SqrtFrom(n, r) == IF (r + 1) * (r + 1) > n THEN r ELSE SqrtFrom(n, r + 1)

\* floor(sqrt(n)), searched upwards from a lower estimate
ISqrt(n) ==
    IF n < 10000 THEN SqrtFrom(n, 0)
    ELSE LET c == SqrtFrom(n \div 10000, 0) * 100
         IN  SqrtFrom(n, c)

\* the rational n/d in lowest terms, d > 0
Rat(n, d) ==
    LET g == Gcd(Abs(n), Abs(d))
        s == IF d < 0 THEN -1 ELSE 1
    IN  [n |-> s * (n \div g), d |-> s * (d \div g)]

RZero == [n |-> 0, d |-> 1]

RAdd(x, y) ==
    LET g == Gcd(x.d, y.d)
    IN  Rat(x.n * (y.d \div g) + y.n * (x.d \div g), (x.d \div g) * y.d)

RMul(x, y) ==
    LET a == Rat(x.n, y.d)
        b == Rat(y.n, x.d)
    IN  [n |-> a.n * b.n, d |-> a.d * b.d]

RDiv(x, y) == RMul(x, IF y.n < 0 THEN [n |-> -y.d, d |-> -y.n] ELSE [n |-> y.d, d |-> y.n])

RLess(x, y) == x.n * y.d < y.n * x.d

RECURSIVE RSum(_)
RSum(s) == IF s = <<>> THEN RZero ELSE RAdd(Head(s), RSum(Tail(s)))

RECURSIVE ISum(_)
ISum(s) == IF s = <<>> THEN 0 ELSE Head(s) + ISum(Tail(s))

Range(s) == {s[i] : i \in DOMAIN s}

(***************************************************************************)
(* Text.  A text is a sequence of lexemes: a maximal run of letters (a     *)
(* word), or a run of characters that are not letters.  White space only   *)
(* separates lexemes and is not represented.                               *)
(***************************************************************************)
Alphabet ==
    << "blocked", "driveway", "illegal", "noise", "parking", "residential",
       "rodent", "sidewalk", "street", "the" >>

Capitalised ==
    << "Blocked", "Driveway", "Illegal", "Noise", "Parking", "Residential",
       "Rodent", "Sidewalk", "Street", "The" >>

NonLetters == {"-", "/", "311"}

LowerWords == Range(Alphabet)

Lexemes == LowerWords \cup Range(Capitalised) \cup NonLetters

\* str.lower() on one lexeme
Lower(l) ==
    IF \E i \in DOMAIN Capitalised : Capitalised[i] = l
    THEN Alphabet[CHOOSE i \in DOMAIN Capitalised : Capitalised[i] = l]
    ELSE l

\* position of a lower-case word in alphabetical order
AlphaIndex(w) == CHOOSE i \in DOMAIN Alphabet : Alphabet[i] = w

STOP_WORDS == {"the"}

IsLetters(l) == l \in LowerWords

preprocess_text(text) ==
    LET lowered == [i \in DOMAIN text |-> Lower(text[i])]
        words   == SelectSeq(lowered, IsLetters)
        NotStop(w) == w \notin STOP_WORDS
    IN  SelectSeq(words, NotStop)

(***************************************************************************)
(* The document table (pandas DataFrame): a sequence of rows, row i of the *)
(* model being row i-1 of the frame; a row maps column names to values.    *)
(***************************************************************************)
Doc(ct, desc) == [complaint_type |-> ct, descriptor |-> desc]

\* the optional columns of the CSV, by the name of the result field each
\* one feeds
OptionalColumns ==
    [ unique_key       |-> "Unique Key",
      created_date     |-> "Created Date",
      incident_address |-> "Incident Address",
      street_name      |-> "Street Name",
      incident_zip     |-> "Incident Zip",
      borough          |-> "Borough",
      city             |-> "City" ]

\* an empty cell, which pandas reads as NaN
NaN == <<>>

\* a record of a CSV that has a Borough column
Located(doc, borough) == doc @@ [borough |-> borough]

\* data_loading.load_data: the optional columns the CSV has are kept, the
\* rows with no Descriptor are dropped, the index is reset, and
\* combined_text = Complaint Type + " - " + Descriptor
load_data(csv) ==
    LET HasDescriptor(row) == row.descriptor # NaN
        kept == SelectSeq(csv, HasDescriptor)
    IN  [i \in DOMAIN kept |->
            ("Complaint Type" :> kept[i].complaint_type)
            @@ ("Descriptor" :> kept[i].descriptor)
            @@ ("combined_text" :> kept[i].complaint_type \o <<"-">> \o kept[i].descriptor)
            @@ [c \in {OptionalColumns[f] : f \in DOMAIN OptionalColumns \cap DOMAIN kept[i]} |->
                   LET f == CHOOSE f \in DOMAIN OptionalColumns : OptionalColumns[f] = c
                   IN  kept[i][f]]]

\* preprocessing.preprocess_dataframe: a copy with the new column
preprocess_dataframe(frame) ==
    [i \in DOMAIN frame |->
        frame[i] @@ ("preprocessed_text" :> preprocess_text(frame[i]["combined_text"]))]

Column(frame, name) == [i \in DOMAIN frame |-> frame[i][name]]

(***************************************************************************)
(* CSV files (DataFrame.to_csv and pd.read_csv).  A cell is a text, NaN,   *)
(* or a number: the dtype pandas holds it in, followed by its digits.      *)
(***************************************************************************)
Digits == {"311"}

Int64(text) == <<"int64">> \o text

Float64(text) == <<"float64">> \o text

IsNumber(cell) == cell # <<>> /\ cell[1] \in {"int64", "float64"}

\* str(cell) of a cell that is not NaN: a float is printed with its decimals
Text(cell) ==
    IF ~IsNumber(cell) THEN cell
    ELSE IF cell[1] = "int64" THEN Tail(cell)
    ELSE Tail(cell) \o <<".0">>

\* DataFrame.to_csv(index=False): a header and one line of fields for each
\* row; NaN is written as an empty field
to_csv(frame) ==
    [i \in DOMAIN frame |->
        [c \in DOMAIN frame[i] |-> IF frame[i][c] = NaN THEN <<>> ELSE Text(frame[i][c])]]

\* a field pd.read_csv can parse as a number
Numeric(field) == Len(field) = 1 /\ field[1] \in Digits

\* pd.read_csv: an empty field is NaN, and a column whose other fields are
\* all numbers becomes a numeric column, float64 when it has a NaN
read_csv(lines) ==
    LET Fields(c) == {lines[i][c] : i \in DOMAIN lines} \ {<<>>}
        IsNumeric(c) == Fields(c) # {} /\ \A f \in Fields(c) : Numeric(f)
        HasNaN(c) == \E i \in DOMAIN lines : lines[i][c] = <<>>
    IN  [i \in DOMAIN lines |->
            [c \in DOMAIN lines[i] |->
                IF lines[i][c] = <<>> THEN NaN
                ELSE IF ~IsNumeric(c) THEN lines[i][c]
                ELSE IF HasNaN(c) THEN Float64(lines[i][c])
                ELSE Int64(lines[i][c])]]

(***************************************************************************)
(* TF-IDF (sklearn TfidfVectorizer(min_df, token_pattern=[a-z]+,           *)
(* lowercase=False, unigrams), smooth idf).  Weights are in tenths.        *)
(* A row is kept as the integer vector r = tf * idf; the L2 normalisation  *)
(* x = r / |r| of the library is applied where rows are multiplied         *)
(* (RowCosine).                                                            *)
(***************************************************************************)
Count(text, w) == Cardinality({i \in DOMAIN text : text[i] = w})

DocFreq(texts, w) == Cardinality({i \in DOMAIN texts : w \in Range(texts[i])})

\* 10 * (ln((1 + n) / (1 + df)) + 1), rounded
IdfTenths(n, df) ==
    LET g == Gcd(1 + n, 1 + df)
        p == (1 + n) \div g
        q == (1 + df) \div g
    IN  CASE p = 1 /\ q = 1 -> 10
          [] p = 6 /\ q = 5 -> 12
          [] p = 5 /\ q = 4 -> 12
          [] p = 4 /\ q = 3 -> 13
          [] p = 3 /\ q = 2 -> 14
          [] p = 5 /\ q = 3 -> 15
          [] p = 2 /\ q = 1 -> 17
          [] p = 5 /\ q = 2 -> 19
          [] p = 3 /\ q = 1 -> 21

\* TfidfVectorizer.fit: the vocabulary in alphabetical order, and its idf
FitVectorizer(texts, min_df) ==
    LET Kept(w) == DocFreq(texts, w) >= min_df
        vocab == SelectSeq(Alphabet, Kept)
    IN  [vocabulary_ |-> vocab,
         idf_ |-> [j \in DOMAIN vocab |-> IdfTenths(Len(texts), DocFreq(texts, vocab[j]))]]

\* TfidfVectorizer.transform of one text: terms outside the vocabulary drop out
TransformText(vectorizer, text) ==
    [j \in DOMAIN vectorizer.vocabulary_ |->
        Count(text, vectorizer.vocabulary_[j]) * vectorizer.idf_[j]]

\* fit_transform's vocabulary lookup: a term not seen before is given the
\* next free column
ColumnsOrNew(vocabulary, term) ==
    IF term \in Range(vocabulary)
    THEN {j - 1 : j \in {m \in DOMAIN vocabulary : vocabulary[m] = term}}
    ELSE {Len(vocabulary)}

\* transform's vocabulary lookup: the column of a term, and none for a term
\* outside the vocabulary (the KeyError is caught and the term skipped)
Columns(vocabulary, term) ==
    {j - 1 : j \in {m \in DOMAIN vocabulary : vocabulary[m] = term}}

\* the stored entries of the sparse count row transform() builds for one text
CountEntries(vectorizer, text) ==
    UNION {{[col |-> c, count |-> Count(text, text[i])] :
                c \in Columns(vectorizer.vocabulary_, text[i])} : i \in DOMAIN text}

\* vectorization.vectorize_texts with vectorizer=None: fit_transform
vectorize_texts(texts, min_df) ==
    LET vectorizer == FitVectorizer(texts, min_df)
    IN  [tfidf_matrix |-> [i \in DOMAIN texts |-> TransformText(vectorizer, texts[i])],
         vectorizer |-> vectorizer]

IDot(u, w) == ISum([i \in DOMAIN u |-> u[i] * w[i]])

IsZeroRow(r) == \A j \in DOMAIN r : r[j] = 0

\* GramScale * (x1 . x2) for the L2-normalised rows x = r / |r|: exactly
\* GramScale for parallel rows, 0 when a row is zero
RowCosine(r1, r2) ==
    LET n  == IDot(r1, r2)
        nn == IDot(r1, r1) * IDot(r2, r2)
    IN  IF IsZeroRow(r1) \/ IsZeroRow(r2) THEN 0
        ELSE IF n * n = nn THEN GramScale
        ELSE Min(GramScale - 1, (GramScale * n) \div ISqrt(nn))

Gram(matrix) ==
    [i \in DOMAIN matrix |-> [m \in DOMAIN matrix |-> RowCosine(matrix[i], matrix[m])]]

(***************************************************************************)
(* Latent semantic indexing (sklearn TruncatedSVD).  The singular value    *)
(* decomposition of the row-normalised TF-IDF matrix X is taken through    *)
(* its Gram matrix G = X X^T: a left singular vector u of X is an          *)
(* eigenvector of G, G u = lambda u with lambda = sigma^2, and the         *)
(* component (right singular vector) that belongs to it is                 *)
(*     v = X^T u / (|u| sigma).                                            *)
(* The fitted model keeps the components in this factored form (coef, the  *)
(* vectors u, and the training rows).  Coordinate j of x V^T is then       *)
(*     (u_j . cosines of x with the training rows) / sqrt(S |u_j|^2 lambda_j) *)
(* with S = GramScale, an integer over the square root of an integer.      *)
(* The model fits the corpora whose G has a full orthogonal basis of       *)
(* eigenvectors with entries in {-1, 0, 1}: there the decomposition is     *)
(* exact.  Where singular values coincide the library may return any       *)
(* orthonormal basis of the eigenspace, and the model any such basis.      *)
(***************************************************************************)
\* lsi.apply_lsi: the number of components actually fitted
ActualNComponents(n_components, n_features) == Min(n_components, n_features - 1)

\* the vectors of {-1, 0, 1}^n whose first non-zero entry is 1
Directions(n) ==
    {u \in [1..n -> {-1, 0, 1}] :
        \E i \in 1..n : u[i] = 1 /\ \A m \in 1..(i - 1) : u[m] = 0}

MatVec(G, u) == [i \in DOMAIN G |-> IDot(G[i], u)]

Lead(u) == CHOOSE i \in DOMAIN u : u[i] = 1 /\ \A m \in 1..(i - 1) : u[m] = 0

EigenValue(G, u) == MatVec(G, u)[Lead(u)]

IsEigenVector(G, u) ==
    LET gu == MatVec(G, u)
    IN  \A i \in DOMAIN u : gu[i] = gu[Lead(u)] * u[i]

EigenVectors(G) == {u \in Directions(Len(G)) : IsEigenVector(G, u)}

\* the sequences of n mutually orthogonal eigenvectors, eigenvalues descending
RECURSIVE Frames(_, _, _)
Frames(G, eig, n) ==
    IF n = 0 THEN {<<>>}
    ELSE UNION {
           {Append(f, u) : u \in {w \in eig :
               /\ \A i \in DOMAIN f : IDot(f[i], w) = 0
               /\ f # <<>> => EigenValue(G, w) <= EigenValue(G, f[Len(f)])}}
           : f \in Frames(G, eig, n - 1)}

\* TruncatedSVD(n_components=k).fit: the k leading eigenvectors of a full basis
SvdFits(G, k) ==
    {SubSeq(b, 1, k) : b \in {f \in Frames(G, EigenVectors(G), Len(G)) :
                                EigenValue(G, f[k]) > 0}}

\* TruncatedSVD.transform of one TF-IDF row
LsiTransform(model, row) ==
    LET cosines == [m \in DOMAIN model.train |-> RowCosine(row, model.train[m])]
    IN  [j \in 1..model.n_components |->
            [n |-> IDot(model.coef[j], cosines),
             d |-> GramScale * IDot(model.coef[j], model.coef[j]) * model.lambda[j]]]

\* lsi.apply_lsi: every (lsi_vectors, lsi_model) the fit may return; none when
\* the library rejects n_components < 1
apply_lsi(tfidf_matrix, n_components) ==
    LET n_features == Len(tfidf_matrix[1])
        k == ActualNComponents(n_components, n_features)
        G == Gram(tfidf_matrix)
    IN  IF k < 1 \/ k > Len(tfidf_matrix) THEN {}
        ELSE {LET model == [n_components |-> k, coef |-> u,
                            lambda |-> [j \in 1..k |-> EigenValue(G, u[j])],
                            train |-> tfidf_matrix]
              IN  [lsi_model |-> model,
                   lsi_vectors |-> [i \in DOMAIN tfidf_matrix |->
                                       LsiTransform(model, tfidf_matrix[i])]]
              : u \in SvdFits(G, k)}

(***************************************************************************)
(* Cosine similarity (sklearn.metrics.pairwise.cosine_similarity): both    *)
(* sides are L2-normalised, a zero vector staying zero, then multiplied.   *)
(* A similarity is kept exactly as its sign s and its square sq.           *)
(***************************************************************************)
LatentDot(p, c) == RSum([j \in DOMAIN p |-> Rat(p[j].n * c[j].n, p[j].d)])

\* dot / (|q| |c|) with no care for a zero norm: 0/0 is kept as it comes out
SimilarityUnguarded(q, c) ==
    LET dot == LatentDot(q, c)
        qq  == LatentDot(q, q)
        cc  == LatentDot(c, c)
    IN  IF qq.n = 0 \/ cc.n = 0 THEN [s |-> 0, sq |-> [n |-> 0, d |-> 0]]
        ELSE IF dot.n = 0 THEN [s |-> 0, sq |-> RZero]
        ELSE [s |-> Sign(dot.n), sq |-> RDiv(RDiv(RMul(dot, dot), qq), cc)]

Similarity(q, c) ==
    LET dot == LatentDot(q, c)
        qq  == LatentDot(q, q)
        cc  == LatentDot(c, c)
    IN  IF qq.n = 0 \/ cc.n = 0 \/ dot.n = 0 THEN [s |-> 0, sq |-> RZero]
        ELSE [s |-> Sign(dot.n), sq |-> RDiv(RDiv(RMul(dot, dot), qq), cc)]

cosine_similarity(q, vectors) == [i \in DOMAIN vectors |-> Similarity(q, vectors[i])]

\* x < y for two similarities
SimLess(x, y) ==
    IF x.s # y.s THEN x.s < y.s
    ELSE IF x.s = 1 THEN RLess(x.sq, y.sq)
    ELSE IF x.s = -1 THEN RLess(y.sq, x.sq)
    ELSE FALSE

SimOne == [s |-> 1, sq |-> [n |-> 1, d |-> 1]]

SimZero == [s |-> 0, sq |-> RZero]

(***************************************************************************)
(* similarity.find_similar_incidents                                       *)
(***************************************************************************)
\* np.argsort(a): the positions of a in ascending order of value.  The
\* default kind is not stable: the order of equal values is fixed by the
\* NumPy build, never by the call.  tie_rank is that build's order.
ArgSort(a, tie_rank) ==
    LET Before(i, m) == SimLess(a[i], a[m]) \/ (a[i] = a[m] /\ tie_rank[i] < tie_rank[m])
    IN  [pos \in DOMAIN a |->
            CHOOSE i \in DOMAIN a : Cardinality({m \in DOMAIN a : Before(m, i)}) = pos - 1]

\* seq[::-1]
\* the ascending order as it is, the [::-1] forgotten
NotReversed(seq) == seq

Reversed(seq) == [pos \in DOMAIN seq |-> seq[Len(seq) + 1 - pos]]

\* seq[:k + 1], a slice one too long
SliceToInclusive(seq, k) ==
    IF k >= 0 THEN SubSeq(seq, 1, Min(k + 1, Len(seq)))
    ELSE SubSeq(seq, 1, IF Len(seq) + k + 1 > 0 THEN Len(seq) + k + 1 ELSE 0)

\* seq[:k] with Python's meaning of a negative k
SliceTo(seq, k) ==
    IF k >= 0 THEN SubSeq(seq, 1, Min(k, Len(seq)))
    ELSE SubSeq(seq, 1, IF Len(seq) + k > 0 THEN Len(seq) + k ELSE 0)

\* np.argsort(similarities)[::-1][:top_k]
TopIndices(similarities, top_k, tie_rank) ==
    SliceTo(Reversed(ArgSort(similarities, tie_rank)), top_k)

\* the similarities of the query with every stored document
QuerySimilarities(query_text, vectorizer, model, vectors) ==
    LET preprocessed_query == preprocess_text(query_text)
        query_tfidf == TransformText(vectorizer, preprocessed_query)
        query_lsi == LsiTransform(model, query_tfidf)
    IN  cosine_similarity(query_lsi, vectors)

\* str(cell) of the two key fields: a NaN cell comes out as 'nan'
Str(cell) == IF cell = NaN THEN <<"nan">> ELSE Text(cell)

\* str(cell) if pd.notna(cell) else '' of the location fields
StrOrEmpty(cell) == IF cell # NaN THEN Text(cell) ELSE <<>>

\* the optional fields of one result: a field for every optional column the
\* table has
OptionalFields(row) ==
    [f \in {f \in DOMAIN OptionalColumns : OptionalColumns[f] \in DOMAIN row} |->
        IF f \in {"unique_key", "created_date"}
        THEN Str(row[OptionalColumns[f]])
        ELSE StrOrEmpty(row[OptionalColumns[f]])]

\* 'index' is the 0-based row number, as in the code
find_similar_incidents(query_text, vectorizer, model, vectors, frame, k, tie_rank) ==
    LET similarities == QuerySimilarities(query_text, vectorizer, model, vectors)
        top_indices == TopIndices(similarities, k, tie_rank)
    IN  [pos \in DOMAIN top_indices |->
            LET idx == top_indices[pos]
            IN  [index |-> idx - 1,
                 similarity |-> similarities[idx],
                 combined_text |-> frame[idx]["combined_text"],
                 complaint_type |-> frame[idx]["Complaint Type"],
                 descriptor |-> frame[idx]["Descriptor"]]
                @@ OptionalFields(frame[idx])]

(***************************************************************************)
(* The serving tools: web_search.index, web_search.api_search and          *)
(* search_interactive.interactive_search.                                  *)
(***************************************************************************)
\* the top_k the web routes and the interactive tool ask for, and the top_n
\* they give analyze_locations
WEB_TOP_K == 20

INTERACTIVE_TOP_K == 10

LOCATIONS_TOP_N == 10

\* how often each value of one field occurs in the results, the values kept
\* being the first top_n of a stable sort by count, descending
LocationCounts(res, field, top_n) ==
    LET Has(p) == field \in DOMAIN res[p] /\ res[p][field] # <<>>
        keys == {res[p][field] : p \in {p \in DOMAIN res : Has(p)}}
        Occurrences(k) == Cardinality({p \in DOMAIN res : Has(p) /\ res[p][field] = k})
        FirstSeen(k) == CHOOSE p \in DOMAIN res :
                            /\ Has(p) /\ res[p][field] = k
                            /\ \A r \in 1..(p - 1) : ~(Has(r) /\ res[r][field] = k)
        Before(j, k) == \/ Occurrences(j) > Occurrences(k)
                        \/ Occurrences(j) = Occurrences(k) /\ FirstSeen(j) < FirstSeen(k)
    IN  [k \in {k \in keys : Cardinality({j \in keys : Before(j, k)}) < top_n} |->
            Occurrences(k)]

\* similarity.analyze_locations; the borough counts are not cut
analyze_locations(res, top_n) ==
    [ total |-> Len(res),
      borough_counts |-> LocationCounts(res, "borough", Len(res) + 1),
      street_counts |-> LocationCounts(res, "street_name", top_n),
      zip_counts |-> LocationCounts(res, "incident_zip", top_n) ]

\* the location_stats of a page that has none
NoStats == [total |-> 0]

\* a loaded table find_similar_incidents can read: it has the columns the
\* result records are built from
Usable(frame) ==
    \A i \in DOMAIN frame :
        {"combined_text", "Complaint Type", "Descriptor"} \subseteq DOMAIN frame[i]

\* the call of find_similar_incidents inside a try: on a table without the
\* column it raises KeyError
TrySearch(query_text, vectorizer, model, vectors, frame, k, tie_rank) ==
    IF Usable(frame)
    THEN [raised |-> FALSE,
          results |-> find_similar_incidents(query_text, vectorizer, model, vectors,
                                             frame, k, tie_rank)]
    ELSE [raised |-> TRUE, results |-> <<>>]

\* HTML_TEMPLATE rendered: the result items and the location analysis when
\* results is not empty, the prompt for a query otherwise
RenderPage(query_text, res, location_stats) ==
    [ status |-> 200,
      query |-> query_text,
      body |-> IF res # <<>>
               THEN [shown |-> "results", results |-> res, location_stats |-> location_stats]
               ELSE [shown |-> "Enter a search query above to find similar incidents."] ]

\* web_search.index for a query; loaded is whether tfidf_vectorizer is set
IndexResponse(query_text, is_loaded, vectorizer, model, vectors, frame, tie_rank) ==
    IF query_text # <<>> /\ is_loaded
    THEN LET tried == TrySearch(query_text, vectorizer, model, vectors, frame,
                                WEB_TOP_K, tie_rank)
         IN  IF tried.raised
             THEN RenderPage(query_text, <<>>, NoStats)
             ELSE RenderPage(query_text, tried.results,
                             IF tried.results # <<>>
                             THEN analyze_locations(tried.results, LOCATIONS_TOP_N)
                             ELSE NoStats)
    ELSE RenderPage(query_text, <<>>, NoStats)

\* an endpoint that looks at the models before it looks at the query
ApiResponseModelsFirst(query_text, is_loaded, vectorizer, model, vectors, frame, tie_rank) ==
    IF ~is_loaded
    THEN [status |-> 500, error |-> "Models not loaded"]
    ELSE IF query_text = <<>>
    THEN [status |-> 400, error |-> "Query parameter q is required"]
    ELSE LET tried == TrySearch(query_text, vectorizer, model, vectors, frame,
                                WEB_TOP_K, tie_rank)
         IN  IF tried.raised
             THEN [status |-> 500, error |-> "'combined_text'"]
             ELSE [status |-> 200, query |-> query_text, results |-> tried.results]

\* web_search.api_search
ApiResponse(query_text, is_loaded, vectorizer, model, vectors, frame, tie_rank) ==
    IF query_text = <<>>
    THEN [status |-> 400, error |-> "Query parameter q is required"]
    ELSE IF ~is_loaded
    THEN [status |-> 500, error |-> "Models not loaded"]
    ELSE LET tried == TrySearch(query_text, vectorizer, model, vectors, frame,
                                WEB_TOP_K, tie_rank)
         IN  IF tried.raised
             THEN [status |-> 500, error |-> "'combined_text'"]
             ELSE [status |-> 200, query |-> query_text, results |-> tried.results]

\* what interactive_search prints for one line typed; without models the
\* tool has printed load_models' error and returned before the first prompt
InteractiveOutput(query_text, is_loaded, vectorizer, model, vectors, frame, tie_rank) ==
    IF ~is_loaded
    THEN [printed |-> "Error: models.pkl not found!"]
    ELSE IF query_text = <<>>
    THEN [printed |-> ""]
    ELSE LET tried == TrySearch(query_text, vectorizer, model, vectors, frame,
                                INTERACTIVE_TOP_K, tie_rank)
         IN  IF tried.raised
             THEN [printed |-> "Error during search: 'combined_text'"]
             ELSE IF tried.results # <<>>
             THEN [printed |-> "Found similar incidents", results |-> tried.results,
                   location_stats |-> analyze_locations(tried.results, LOCATIONS_TOP_N)]
             ELSE [printed |-> "No similar incidents found."]

(***************************************************************************)
(* clustering.analyze_clusters and get_cluster_top_terms.  A weight of the *)
(* L2-normalised matrix is r / sqrt(q) with q = r . r; with c the largest  *)
(* integer whose square divides q and s = q / c^2 it is (r / (c s)) sqrt(s) *)
(* and a mean weight is kept exactly, as the rational coefficient of each  *)
(* sqrt(s) it has.                                                         *)
(***************************************************************************)
RECURSIVE SquareFrom(_, _)
SquareFrom(q, c) == IF q % (c * c) = 0 THEN c ELSE SquareFrom(q, c - 1)

\* the largest c whose square divides q, searched downwards from sqrt(q)
SquarePart(q) == SquareFrom(q, ISqrt(q))

Kernel(q) == q \div (SquarePart(q) * SquarePart(q))

\* the elements of a set of integers in ascending order
Ascending(S) ==
    [pos \in 1..Cardinality(S) |->
        CHOOSE v \in S : Cardinality({w \in S : w < v}) = pos - 1]

\* the rows of the cluster, in document order (cluster_labels == cluster_id)
ClusterMask(labels, cluster_id) ==
    Ascending({i \in DOMAIN labels : labels[i] = cluster_id})

\* cluster_tfidf.mean(axis=0)[t] of a cluster that has members
MeanScore(matrix, members, t) ==
    LET q(i) == IDot(matrix[i], matrix[i])
        live == {p \in DOMAIN members : matrix[members[p]][t] # 0}
        Coef(s) ==
            RSum([p \in DOMAIN members |->
                    IF p \in live /\ Kernel(q(members[p])) = s
                    THEN Rat(matrix[members[p]][t],
                             SquarePart(q(members[p])) * s * Len(members))
                    ELSE RZero])
    IN  [s \in {Kernel(q(members[p])) : p \in live} |-> Coef(s)]

\* bounds of ScoreScale * x for a mean weight x, from the bounds
\* a / RootScale <= sqrt(s) < (a + 1) / RootScale
ScoreLow(x) ==
    LET ks == Ascending(DOMAIN x)
    IN  ISum([p \in DOMAIN ks |->
                (x[ks[p]].n * ISqrt(ks[p] * RootScale * RootScale) * ScoreScale)
                    \div (x[ks[p]].d * RootScale)])

ScoreHigh(x) ==
    LET ks == Ascending(DOMAIN x)
    IN  ISum([p \in DOMAIN ks |->
                ((x[ks[p]].n * (ISqrt(ks[p] * RootScale * RootScale) + 1) * ScoreScale)
                    \div (x[ks[p]].d * RootScale)) + 1])

\* x < y for two mean weights: they differ, and their bounds tell which is
\* the smaller
ScoreLess(x, y) == x # y /\ ScoreHigh(x) < ScoreLow(y)

\* np.argsort(mean_scores)
ArgSortScores(a, tie_rank) ==
    LET Before(i, m) == ScoreLess(a[i], a[m]) \/ (a[i] = a[m] /\ tie_rank[i] < tie_rank[m])
    IN  [pos \in DOMAIN a |->
            CHOOSE i \in DOMAIN a : Cardinality({m \in DOMAIN a : Before(m, i)}) = pos - 1]

\* clustering.get_cluster_top_terms; the mean of no rows divides by zero
get_cluster_top_terms(matrix, labels, vectorizer, cluster_id, top_terms, tie_rank) ==
    LET cluster_mask == ClusterMask(labels, cluster_id)
        feature_names == vectorizer.vocabulary_
        mean_scores == [t \in DOMAIN feature_names |-> MeanScore(matrix, cluster_mask, t)]
        top_indices == SliceTo(Reversed(ArgSortScores(mean_scores, tie_rank)), top_terms)
    IN  IF cluster_mask = <<>>
        THEN [raised |-> TRUE, value |-> <<>>]
        ELSE [raised |-> FALSE,
              value |-> [pos \in DOMAIN top_indices |->
                            [term |-> feature_names[top_indices[pos]],
                             score |-> mean_scores[top_indices[pos]]]]]

\* the caller's table with a 'cluster' column written into it
FrameWithClusterColumn(frame, labels) ==
    [i \in DOMAIN frame |-> frame[i] @@ ("cluster" :> labels[i])]

\* the caller's table after analyze_clusters: the column goes into a copy
FrameAfterAnalysis(frame, labels) == frame

\* the last n rows in place of the first n
LastRows(rows, n) ==
    [p \in 1..Min(n, Len(rows)) |-> rows[Len(rows) - Min(n, Len(rows)) + p]]

\* cluster_data.head(n): the first n rows, in the order of the table
FirstRows(rows, n) == SliceTo(rows, n)

\* the entry of one cluster; the examples keep three columns of the rows
ClusterEntry(frame, labels, matrix, vectorizer, cluster_id, top_terms, examples_per_cluster, tie_rank) ==
    LET cluster_data == ClusterMask(labels, cluster_id)
        examples == FirstRows(cluster_data, examples_per_cluster)
    IN  [ size |-> Len(cluster_data),
          examples |-> [p \in DOMAIN examples |->
                          [c \in {"combined_text", "Complaint Type", "Descriptor"} |->
                              frame[examples[p]][c]]],
          top_terms |-> get_cluster_top_terms(matrix, labels, vectorizer, cluster_id,
                                              top_terms, tie_rank).value ]

\* clustering.analyze_clusters: an entry for each id below the number of
\* distinct labels; it raises where get_cluster_top_terms does
analyze_clusters(frame, labels, matrix, vectorizer, top_terms, examples_per_cluster, tie_rank) ==
    LET n_clusters == Cardinality(Range(labels))
        ids == 0..(n_clusters - 1)
    IN  IF \E c \in ids : ClusterMask(labels, c) = <<>>
        THEN [raised |-> TRUE, value |-> <<>>]
        ELSE [raised |-> FALSE,
              value |-> [c \in ids |->
                           ClusterEntry(frame, labels, matrix, vectorizer, c,
                                        top_terms, examples_per_cluster, tie_rank)]]

\* fit_transform in place of transform: the vectorizer is fitted again
VectorizerRefit(vectorizer, query_text) ==
    FitVectorizer(<<preprocess_text(query_text)>>, 1)

\* the fitted vectorizer after a query: transform() fits nothing
VectorizerAfterQuery(vectorizer, query_text) == vectorizer

(***************************************************************************)
(* State of the search tools: the loaded snapshot and the call in hand.    *)
(***************************************************************************)
VARIABLES
    df,                 \* the document table
    tfidf_vectorizer,   \* the fitted vectorizer
    lsi_model,          \* the fitted TruncatedSVD
    lsi_vectors,        \* the latent matrix, one row per document
    tie_order,          \* the order np.argsort gives equal values in this build
    phase,              \* "idle", or "answered" while a caller holds results
    query,              \* the query text of the call
    top_k,              \* its top_k
    results,            \* what find_similar_incidents returned for it
    pc,                 \* the stage main() is at
    run,                \* the number of the run of main() in hand
    input,              \* its dataset.csv and configuration
    tfidf_matrix,       \* main's TF-IDF matrix
    cluster_labels,     \* main's cluster label array
    kmeans_model,       \* main's fitted KMeans
    files,              \* the output directory: what each file holds
    writing,            \* TRUE while main() has the stage's file open
    completed,          \* the runs that reached PIPELINE COMPLETE
    rpc,                \* the file a loading search tool is at
    loaded,             \* what it has read so far
    bundle,             \* what load_models left in the serving process
    route,              \* the entry point a query came in by
    response,           \* what that entry point gave the caller
    apc,                \* "idle", or "analysed" while a caller holds a report
    top_terms,          \* the top_terms of the analyze_clusters call
    examples_per_cluster, \* its examples_per_cluster
    cluster_analysis,   \* what it returned, or that it raised
    library,            \* what the library's generator gives for each seed
    random_state,       \* the random_state of the last fit
    fitted,             \* the number of fits made
    previous,           \* the outputs of the fit before the last one
    request_times,      \* the rate limiter's list: how long ago each request was recorded
    recent,             \* how long ago each request of the last TIME_WINDOW was recorded
    slept,              \* how long the last rate_limit call slept
    requests,           \* the number of make_request calls so far
    pair_pc,            \* where get_all_similar_pairs is
    movies,             \* its list of (id, title) tuples
    idx,                \* the number of movies it has processed
    pairs,              \* its set of pairs
    page_pc,            \* where get_300_comedy_movies is
    page,               \* the page it asks for next
    collected,          \* its list of (id, title) tuples
    stream,             \* the results the API has returned to it, in order
    stop                \* why its loop ended

searchVars == <<tie_order, phase, query, top_k, results>>

mainVars == <<pc, run, input, tfidf_matrix, cluster_labels, kmeans_model,
              files, writing, completed>>

readerVars == <<rpc, loaded>>

serveVars == <<bundle, route, response>>

analysisVars == <<apc, top_terms, examples_per_cluster, cluster_analysis>>

fitVars == <<library, random_state, fitted, previous>>

limiterVars == <<request_times, recent, slept, requests>>

pairVars == <<pair_pc, movies, idx, pairs>>

pagingVars == <<page_pc, page, collected, stream, stop>>

labVars == <<limiterVars, pairVars, pagingVars>>

toolVars == <<serveVars, analysisVars, fitVars, labVars>>

vars == <<df, tfidf_vectorizer, lsi_model, lsi_vectors, searchVars, mainVars, readerVars,
          toolVars>>

snapshot == <<df, tfidf_vectorizer, lsi_model, lsi_vectors>>

\* the records datasets are made of; the CSV has a Borough column, which
\* two of the records leave empty
DocPool ==
    { Located(Doc(<<"Noise">>, <<"Residential">>), <<"BROOKLYN">>),
      Located(Doc(<<"Noise">>, <<"Street", "/", "Sidewalk">>), NaN),
      Located(Doc(<<"Illegal", "Parking">>, <<"Blocked", "Driveway">>), <<"QUEENS">>),
      Located(Doc(<<"illegal", "parking">>, <<"the", "blocked", "driveway", "311">>), NaN) }

QueryPool ==
    { <<"Noise", "-", "Residential">>,
      <<"noise", "residential">>,
      <<"noise", "street", "sidewalk">>,
      <<"illegal", "parking", "blocked", "driveway">>,
      <<"Noise", "-", "Parking">>,
      <<"Rodent">>,
      <<"The", "311">> }

TopKs == (-1)..MaxTopK

\* a dataset: up to MaxDocs different records of the pool, in any order
Corpora ==
    UNION {{c \in [1..n -> DocPool] : \A i, m \in 1..n : i # m => c[i] # c[m]}
           : n \in 1..MaxDocs}

\* the builds: equal values left in ascending index order (a stable sort, as
\* the insertion sort NumPy uses on short arrays), or in descending order
TieOrders(n) == {[i \in 1..n |-> i], [i \in 1..n |-> n + 1 - i]}

(***************************************************************************)
(* The output directory and the stages of main().                          *)
(***************************************************************************)
FileNames ==
    { "processed_data.csv", "tfidf_vectors.npz", "lsi_vectors.npy",
      "cluster_assignments.csv", "cluster_visualization.png",
      "analysis_report.html", "tfidf_vectorizer.pkl", "lsi_model.pkl",
      "kmeans_model.pkl", "models.pkl", "metadata.json" }

\* a local of main() not assigned yet
NoObject == <<>>

\* a path with no file: run is the run that wrote the file, complete is
\* FALSE from the open that truncates it until the write has finished
NoFile == [run |-> 0, complete |-> FALSE, data |-> NoObject]

\* the statements of main() in program order; a save stage writes one file
Stages ==
    << "load_data", "save_processed_data", "vectorize_texts",
       "save_tfidf_vectors", "apply_lsi", "save_lsi_vectors", "apply_kmeans",
       "save_cluster_assignments", "analyze_clusters", "plot_clusters",
       "find_similar_incidents", "generate_html_report",
       "save_tfidf_vectorizer", "save_lsi_model", "save_kmeans_model",
       "save_legacy_models", "save_metadata" >>

Running == Range(Stages)

\* a main() that goes from the TF-IDF save straight to the clustering
StageSkippingLsi(s) ==
    LET i == CHOOSE i \in DOMAIN Stages : Stages[i] = s
    IN  IF s = "save_tfidf_vectors" THEN "apply_kmeans"
        ELSE IF i = Len(Stages) THEN "complete" ELSE Stages[i + 1]

StageAfter(s) ==
    LET i == CHOOSE i \in DOMAIN Stages : Stages[i] = s
    IN  IF i = Len(Stages) THEN "complete" ELSE Stages[i + 1]

SaveTarget ==
    [ save_processed_data      |-> "processed_data.csv",
      save_tfidf_vectors       |-> "tfidf_vectors.npz",
      save_lsi_vectors         |-> "lsi_vectors.npy",
      save_cluster_assignments |-> "cluster_assignments.csv",
      plot_clusters            |-> "cluster_visualization.png",
      generate_html_report     |-> "analysis_report.html",
      save_tfidf_vectorizer    |-> "tfidf_vectorizer.pkl",
      save_lsi_model           |-> "lsi_model.pkl",
      save_kmeans_model        |-> "kmeans_model.pkl",
      save_legacy_models       |-> "models.pkl",
      save_metadata            |-> "metadata.json" ]

\* shape[1] of a matrix held as a sequence of rows
Shape1(matrix) == IF matrix = <<>> THEN 0 ELSE Len(matrix[1])

\* KMeans: every document gets one of n_clusters labels, equal latent rows
\* the same one, and no cluster is left empty while there are distinct rows
\* to fill it; more clusters than documents is rejected
apply_kmeans(vectors, n_clusters) ==
    IF n_clusters > Len(vectors)
    THEN {}
    ELSE { [cluster_labels |-> l, kmeans_model |-> [n_clusters |-> n_clusters]] :
             l \in { l \in [DOMAIN vectors -> 0..(n_clusters - 1)] :
                       /\ \A i, m \in DOMAIN vectors :
                             vectors[i] = vectors[m] => l[i] = l[m]
                       /\ Cardinality(Range(l)) =
                             Min(n_clusters, Cardinality(Range(vectors))) } }

\* the config dictionary main() builds in step 11 (max_features and
\* random_state, which the model does not vary, left out)
Configuration(inp) ==
    [ min_df         |-> inp.min_df,
      lsi_components |-> inp.n_components,
      n_clusters     |-> inp.n_clusters ]

\* a dataset_info that repeats the requested number of components
DatasetInfoRequested(inp, frame, matrix, vectors, vectorizer) ==
    [ total_records    |-> Len(frame),
      n_features_tfidf |-> Shape1(matrix),
      n_components_lsi |-> inp.n_components,
      n_clusters       |-> inp.n_clusters,
      vocabulary_size  |-> Len(vectorizer.vocabulary_) ]

\* the dataset_info dictionary main() builds in step 11
DatasetInfo(inp, frame, matrix, vectors, vectorizer) ==
    [ total_records    |-> Len(frame),
      n_features_tfidf |-> Shape1(matrix),
      n_components_lsi |-> Shape1(vectors),
      n_clusters       |-> inp.n_clusters,
      vocabulary_size  |-> Len(vectorizer.vocabulary_) ]

\* the document save_metadata writes (its timestamp and its constant table
\* of file paths left out)
Metadata(config, dataset_info) ==
    [ pipeline_version |-> "1.0",
      dataset_info     |-> dataset_info,
      configuration    |-> config ]

\* the bytes a save stage writes
SaveData(s) ==
    CASE s = "save_processed_data"      -> df
      [] s = "save_tfidf_vectors"       -> tfidf_matrix
      [] s = "save_lsi_vectors"         -> lsi_vectors
      [] s = "save_cluster_assignments" -> [frame |-> df, cluster |-> cluster_labels]
      [] s = "plot_clusters"            -> cluster_labels
      [] s = "generate_html_report"     -> cluster_labels
      [] s = "save_tfidf_vectorizer"    -> tfidf_vectorizer
      [] s = "save_lsi_model"           -> lsi_model
      [] s = "save_kmeans_model"        -> kmeans_model
      [] s = "save_legacy_models"       ->
             [ tfidf_vectorizer |-> tfidf_vectorizer, lsi_model |-> lsi_model,
               lsi_vectors |-> lsi_vectors, df |-> df ]
      [] s = "save_metadata"            ->
             Metadata(Configuration(input),
                      DatasetInfo(input, df, tfidf_matrix, lsi_vectors,
                                  tfidf_vectorizer))

\* datasets with no usable record: a header and no row, or rows whose
\* Descriptor is empty
EmptyCorpora ==
    { <<>>,
      << Doc(<<"Noise">>, <<>>) >>,
      << Doc(<<"Noise">>, <<>>), Doc(<<"Illegal", "Parking">>, <<>>) >> }

\* the inputs of a run: a dataset.csv and the constants of main()
Inputs ==
    [ csv : Corpora \cup EmptyCorpora, min_df : 1..2, n_components : 1..MaxComponents,
      n_clusters : 1..MaxClusters ]

\* the inputs whose factorisation, when the run reaches it, is one the
\* model can state exactly
Solvable(inp) ==
    LET frame == preprocess_dataframe(load_data(inp.csv))
        vz == vectorize_texts(Column(frame, "preprocessed_text"), inp.min_df)
    IN  \/ vz.vectorizer.vocabulary_ = <<>>
        \/ ActualNComponents(inp.n_components, Len(vz.vectorizer.vocabulary_)) < 1
        \/ apply_lsi(vz.tfidf_matrix, inp.n_components) # {}

Datasets == {inp \in Inputs : Solvable(inp)}

\* the dataset the output directory is rebuilt from while tools load it
StoreInput ==
    [ csv |-> << Doc(<<"Noise">>, <<"Residential">>),
                 Doc(<<"Noise">>, <<"Street", "/", "Sidewalk">>) >>,
      min_df |-> 1, n_components |-> 1, n_clusters |-> 1 ]

\* the files load_all_for_search opens, in the order it opens them
ReaderFiles ==
    << "tfidf_vectorizer.pkl", "lsi_model.pkl", "kmeans_model.pkl",
       "lsi_vectors.npy", "processed_data.csv" >>

NothingLoaded == [f \in Range(ReaderFiles) \cup {"models.pkl"} |-> NoFile]

\* no request answered yet, and no report made
NoResponse == [status |-> "none"]

NoAnalysis == [raised |-> FALSE, value |-> <<>>]

\* the random_state main() gives apply_lsi and apply_kmeans
RANDOM_STATE == 42

Seeds == {RANDOM_STATE, 0}

\* the outputs of a fit that was not made
NoFit == [random_state |-> -1, lsi_vectors |-> <<>>, cluster_labels |-> <<>>,
          centroids |-> <<>>]

\* a seed no estimator has been run with yet
Unused == [used |-> FALSE]

\* no fit made
FitIdle ==
    /\ library = [s \in Seeds |-> Unused]
    /\ random_state = 0
    /\ fitted = 0
    /\ previous = NoFit

\* script.py just started: no request made
LimiterIdle ==
    /\ request_times = <<>>
    /\ recent = <<>>
    /\ slept = 0
    /\ requests = 0

\* get_all_similar_pairs not called
PairsIdle ==
    /\ pair_pc = "idle"
    /\ movies = <<>>
    /\ idx = 0
    /\ pairs = {}

\* get_300_comedy_movies not called
PagingIdle ==
    /\ page_pc = "idle"
    /\ page = 0
    /\ collected = <<>>
    /\ stream = <<>>
    /\ stop = "none"

LabIdle == LimiterIdle /\ PairsIdle /\ PagingIdle

\* the arguments main() gives analyze_clusters
MAIN_TOP_TERMS == 10

MAIN_EXAMPLES_PER_CLUSTER == 5

\* main() not started, nothing on disk, no tool loading
MainIdle ==
    /\ pc = "idle"
    /\ run = 0
    /\ input = NoObject
    /\ tfidf_matrix = NoObject
    /\ cluster_labels = NoObject
    /\ kmeans_model = NoObject
    /\ files = [f \in FileNames |-> NoFile]
    /\ writing = FALSE
    /\ completed = {}
    /\ rpc = "idle"
    /\ loaded = NothingLoaded
    /\ bundle = "loaded"
    /\ route = "none"
    /\ response = NoResponse
    /\ apc = "idle"
    /\ top_terms = 0
    /\ examples_per_cluster = 0
    /\ cluster_analysis = NoAnalysis
    /\ FitIdle
    /\ LabIdle

\* the state main.py reaches after steps 1 to 4 on one dataset
Init ==
    \E csv \in Corpora, min_df \in 1..2, n_components \in 1..MaxComponents :
        LET frame == preprocess_dataframe(load_data(csv))
            vz == vectorize_texts(Column(frame, "preprocessed_text"), min_df)
        IN  /\ vz.vectorizer.vocabulary_ # <<>>
            /\ \E fit \in apply_lsi(vz.tfidf_matrix, n_components) :
                /\ df = frame
                /\ tfidf_vectorizer = vz.vectorizer
                /\ lsi_model = fit.lsi_model
                /\ lsi_vectors = fit.lsi_vectors
            /\ tie_order \in TieOrders(Len(csv))
            /\ phase = "idle"
            /\ query = <<>>
            /\ top_k = 0
            /\ results = <<>>
            /\ MainIdle

\* one call of find_similar_incidents on the loaded snapshot
Search ==
    /\ phase = "idle"
    /\ \E q \in QueryPool, k \in TopKs :
        /\ query' = q
        /\ top_k' = k
        /\ results' = find_similar_incidents(q, tfidf_vectorizer, lsi_model,
                                             lsi_vectors, df, k, tie_order)
        /\ tfidf_vectorizer' = VectorizerAfterQuery(tfidf_vectorizer, q)
    /\ phase' = "answered"
    /\ UNCHANGED <<df, lsi_model, lsi_vectors, tie_order, mainVars, readerVars, toolVars>>

\* the caller prints or sends the results and waits for the next query
Respond ==
    /\ phase = "answered"
    /\ phase' = "idle"
    /\ query' = <<>>
    /\ top_k' = 0
    /\ results' = <<>>
    /\ UNCHANGED <<df, tfidf_vectorizer, lsi_model, lsi_vectors, tie_order,
                   mainVars, readerVars, toolVars>>

Next == Search \/ Respond

Spec == Init /\ [][Next]_vars

(***************************************************************************)
(* main(): one action per stage.  An exception in a stage ends the run.    *)
(***************************************************************************)
snapshotVars == <<df, tfidf_vectorizer, lsi_model, lsi_vectors>>

Ended == {"complete", "returned", "failed", "cancelled"}

Begin(pool) ==
    /\ run' = run + 1
    /\ input' \in pool
    /\ pc' = "load_data"
    /\ df' = NoObject
    /\ tfidf_vectorizer' = NoObject
    /\ lsi_model' = NoObject
    /\ lsi_vectors' = NoObject
    /\ tfidf_matrix' = NoObject
    /\ cluster_labels' = NoObject
    /\ kmeans_model' = NoObject
    /\ UNCHANGED <<files, writing, completed, searchVars, readerVars, toolVars>>

\* python main.py on an empty output directory, on any dataset
StartRun ==
    /\ pc = "idle"
    /\ Begin(Datasets)

\* python main.py on the dataset the search tools are served from, run
\* after run over the files of the earlier runs
Rerun ==
    /\ pc \in Ended \cup {"idle"}
    /\ run < MaxRuns
    /\ Begin({StoreInput})

\* steps 1 and 2: the CSV is looked for, loaded and preprocessed
LoadData ==
    /\ pc = "load_data"
    /\ \E exists \in BOOLEAN :
          IF exists
          THEN /\ df' = preprocess_dataframe(load_data(input.csv))
               /\ pc' = StageAfter(pc)
          ELSE /\ df' = df
               /\ pc' = "returned"
    /\ UNCHANGED <<tfidf_vectorizer, lsi_model, lsi_vectors, searchVars,
                   run, input, tfidf_matrix, cluster_labels, kmeans_model, files,
                   writing, completed, readerVars, toolVars>>

\* a save stage opens its file for writing, which truncates it
OpenFile ==
    /\ pc \in DOMAIN SaveTarget
    /\ ~writing
    /\ writing' = TRUE
    /\ files' = [files EXCEPT ![SaveTarget[pc]] =
                    [run |-> run, complete |-> FALSE, data |-> NoObject]]
    /\ UNCHANGED <<snapshotVars, searchVars, pc, run, input, tfidf_matrix,
                   cluster_labels, kmeans_model, completed, readerVars, toolVars>>

\* the save stage has written the file and closed it
CloseFile ==
    /\ pc \in DOMAIN SaveTarget
    /\ writing
    /\ writing' = FALSE
    /\ files' = [files EXCEPT ![SaveTarget[pc]] =
                    [run |-> run, complete |-> TRUE, data |-> SaveData(pc)]]
    /\ pc' = StageAfter(pc)
    /\ completed' = IF pc' = "complete" THEN completed \cup {run} ELSE completed
    /\ UNCHANGED <<snapshotVars, searchVars, run, input, tfidf_matrix,
                   cluster_labels, kmeans_model, readerVars, toolVars>>

\* step 3: TfidfVectorizer raises when no term is left
Vectorize ==
    /\ pc = "vectorize_texts"
    /\ LET vz == vectorize_texts(Column(df, "preprocessed_text"), input.min_df)
       IN  IF vz.vectorizer.vocabulary_ = <<>>
           THEN /\ pc' = "failed"
                /\ UNCHANGED <<tfidf_matrix, tfidf_vectorizer>>
           ELSE /\ pc' = StageAfter(pc)
                /\ tfidf_matrix' = vz.tfidf_matrix
                /\ tfidf_vectorizer' = vz.vectorizer
    /\ UNCHANGED <<df, lsi_model, lsi_vectors, searchVars, run, input,
                   cluster_labels, kmeans_model, files, writing, completed,
                   readerVars, toolVars>>

\* step 4: TruncatedSVD raises when asked for less than one component
ApplyLsi ==
    /\ pc = "apply_lsi"
    /\ IF ActualNComponents(input.n_components, Shape1(tfidf_matrix)) < 1
       THEN /\ pc' = "failed"
            /\ UNCHANGED <<lsi_model, lsi_vectors>>
       ELSE /\ pc' = StageAfter(pc)
            /\ \E fit \in apply_lsi(tfidf_matrix, input.n_components) :
                  /\ lsi_model' = fit.lsi_model
                  /\ lsi_vectors' = fit.lsi_vectors
    /\ UNCHANGED <<df, tfidf_vectorizer, searchVars, run, input,
                   tfidf_matrix, cluster_labels, kmeans_model, files, writing,
                   completed, readerVars, toolVars>>

\* step 5: KMeans raises when there are fewer documents than clusters
ApplyKMeans ==
    /\ pc = "apply_kmeans"
    /\ IF apply_kmeans(lsi_vectors, input.n_clusters) = {}
       THEN /\ pc' = "failed"
            /\ UNCHANGED <<cluster_labels, kmeans_model>>
       ELSE /\ pc' = StageAfter(pc)
            /\ \E fit \in apply_kmeans(lsi_vectors, input.n_clusters) :
                  /\ cluster_labels' = fit.cluster_labels
                  /\ kmeans_model' = fit.kmeans_model
    /\ UNCHANGED <<snapshotVars, searchVars, run, input, tfidf_matrix,
                   files, writing, completed, readerVars, toolVars>>

\* step 6, and the 2D projection of step 7, which reads and assigns a local
\* only the report uses; an exception in analyze_clusters ends the run
AnalyzeClusters ==
    /\ pc = "analyze_clusters"
    /\ \E tie \in TieOrders(Len(tfidf_vectorizer.vocabulary_)) :
          LET made == analyze_clusters(df, cluster_labels, tfidf_matrix, tfidf_vectorizer,
                                       MAIN_TOP_TERMS, MAIN_EXAMPLES_PER_CLUSTER, tie)
          IN  /\ cluster_analysis' = made
              /\ pc' = IF made.raised THEN "failed" ELSE StageAfter(pc)
    /\ df' = FrameAfterAnalysis(df, cluster_labels)
    /\ top_terms' = MAIN_TOP_TERMS
    /\ examples_per_cluster' = MAIN_EXAMPLES_PER_CLUSTER
    /\ UNCHANGED <<tfidf_vectorizer, lsi_model, lsi_vectors, searchVars, run, input,
                   tfidf_matrix, cluster_labels, kmeans_model, files, writing,
                   completed, readerVars, serveVars, apc, fitVars, labVars>>

\* step 8: the example queries, answered from main's own objects
SearchExamples ==
    /\ pc = "find_similar_incidents"
    /\ pc' = StageAfter(pc)
    /\ tfidf_vectorizer' =
          VectorizerAfterQuery(tfidf_vectorizer, <<"Noise", "-", "Residential">>)
    /\ UNCHANGED <<df, lsi_model, lsi_vectors, searchVars, run, input,
                   tfidf_matrix, cluster_labels, kmeans_model, files, writing,
                   completed, readerVars, toolVars>>

\* the run is interrupted, or a stage raises, between two stages
Cancel ==
    /\ pc \in Running
    /\ ~writing
    /\ pc' = "cancelled"
    /\ UNCHANGED <<snapshotVars, searchVars, run, input, tfidf_matrix,
                   cluster_labels, kmeans_model, files, writing, completed,
                   readerVars, toolVars>>

Main ==
    \/ LoadData
    \/ OpenFile
    \/ CloseFile
    \/ Vectorize
    \/ ApplyLsi
    \/ ApplyKMeans
    \/ AnalyzeClusters
    \/ SearchExamples

(***************************************************************************)
(* The loaders of the search tools, running beside main().                 *)
(***************************************************************************)
FileAfter(f) ==
    LET i == CHOOSE i \in DOMAIN ReaderFiles : ReaderFiles[i] = f
    IN  IF i = Len(ReaderFiles) THEN "loaded" ELSE ReaderFiles[i + 1]

\* a search tool starts loading: load_all_for_search, or the load_models of
\* the web and interactive tools, which reads models.pkl
StartLoad ==
    /\ rpc \in {"idle", "loaded", "missing", "error"}
    /\ rpc' \in {ReaderFiles[1], "models.pkl"}
    /\ loaded' = NothingLoaded
    /\ UNCHANGED <<snapshotVars, searchVars, mainVars, toolVars>>

\* the tool opens and reads the file it is at.  A pickle or an array cut
\* short raises; a CSV cut short raises when it is empty and otherwise
\* parses as a shorter table
ReadFile ==
    /\ rpc \in Range(ReaderFiles) \cup {"models.pkl"}
    /\ LET file == files[rpc]
           after == IF rpc = "models.pkl" THEN "loaded" ELSE FileAfter(rpc)
       IN  IF file.run = 0
           THEN /\ rpc' = IF rpc = "kmeans_model.pkl" THEN after
                          ELSE IF rpc = "models.pkl" THEN "missing"
                          ELSE "error"
                /\ loaded' = loaded
           ELSE IF file.complete
           THEN /\ rpc' = after
                /\ loaded' = [loaded EXCEPT ![rpc] = file]
           ELSE IF rpc = "processed_data.csv"
           THEN \E parsed \in BOOLEAN :
                   IF parsed
                   THEN /\ rpc' = after
                        /\ loaded' = [loaded EXCEPT ![rpc] = file]
                   ELSE /\ rpc' = "error"
                        /\ loaded' = loaded
           ELSE /\ rpc' = "error"
                /\ loaded' = loaded
    /\ UNCHANGED <<snapshotVars, searchVars, mainVars, toolVars>>

Reader == StartLoad \/ ReadFile

\* main() not started: an empty output directory and no tool loading
InitPipeline ==
    /\ df = NoObject
    /\ tfidf_vectorizer = NoObject
    /\ lsi_model = NoObject
    /\ lsi_vectors = NoObject
    /\ tie_order = NoObject
    /\ phase = "idle"
    /\ query = <<>>
    /\ top_k = 0
    /\ results = <<>>
    /\ MainIdle

\* one run of main() on any dataset
NextPipeline == StartRun \/ Main

PipelineSpec == InitPipeline /\ [][NextPipeline]_vars

(***************************************************************************)
(* analyze_clusters called on a table, its TF-IDF matrix and vectorizer,   *)
(* and any label array over 0 .. n_clusters - 1.                           *)
(***************************************************************************)
\* the tables analysed: the records of a dataset in one fixed order, since
\* the report of a table is read off its rows in the order they have
DocList == CHOOSE s \in [1..Cardinality(DocPool) -> DocPool] : Range(s) = DocPool

AnalysisCorpora ==
    LET Pos(d) == CHOOSE i \in DOMAIN DocList : DocList[i] = d
    IN  {c \in Corpora : \A i, m \in DOMAIN c : i < m => Pos(c[i]) < Pos(c[m])}

InitAnalysis ==
    \E csv \in AnalysisCorpora, n_clusters \in 1..MaxClusters :
        LET frame == preprocess_dataframe(load_data(csv))
            vz == vectorize_texts(Column(frame, "preprocessed_text"), 1)
        IN  /\ df = frame
            /\ tfidf_vectorizer = vz.vectorizer
            /\ tfidf_matrix = vz.tfidf_matrix
            /\ cluster_labels \in [DOMAIN frame -> 0..(n_clusters - 1)]
            /\ kmeans_model = [n_clusters |-> n_clusters]
            /\ tie_order \in TieOrders(Len(vz.vectorizer.vocabulary_))
            /\ lsi_model = NoObject
            /\ lsi_vectors = NoObject
            /\ phase = "idle"
            /\ query = <<>>
            /\ top_k = 0
            /\ results = <<>>
            /\ pc = "idle"
            /\ run = 0
            /\ input = NoObject
            /\ files = [f \in FileNames |-> NoFile]
            /\ writing = FALSE
            /\ completed = {}
            /\ rpc = "idle"
            /\ loaded = NothingLoaded
            /\ bundle = "loaded"
            /\ route = "none"
            /\ response = NoResponse
            /\ apc = "idle"
            /\ top_terms = 0
            /\ examples_per_cluster = 0
            /\ cluster_analysis = NoAnalysis
            /\ FitIdle
            /\ LabIdle

\* one call of analyze_clusters
Analyze ==
    /\ apc = "idle"
    /\ \E t \in 1..MaxTopTerms, e \in 1..MaxExamples :
        /\ top_terms' = t
        /\ examples_per_cluster' = e
        /\ cluster_analysis' = analyze_clusters(df, cluster_labels, tfidf_matrix,
                                                tfidf_vectorizer, t, e, tie_order)
    /\ df' = FrameAfterAnalysis(df, cluster_labels)
    /\ apc' = "analysed"
    /\ UNCHANGED <<tfidf_vectorizer, lsi_model, lsi_vectors, searchVars, mainVars,
                   readerVars, serveVars, fitVars, labVars>>

\* the caller takes the report, or the exception
Report ==
    /\ apc = "analysed"
    /\ apc' = "idle"
    /\ top_terms' = 0
    /\ examples_per_cluster' = 0
    /\ cluster_analysis' = NoAnalysis
    /\ UNCHANGED <<snapshotVars, searchVars, mainVars, readerVars, serveVars, fitVars, labVars>>

NextAnalysis == Analyze \/ Report

AnalysisSpec == InitAnalysis /\ [][NextAnalysis]_vars

(***************************************************************************)
(* The serving tools answering queries: with the bundle loaded, with no    *)
(* bundle loaded, and with a bundle whose table lacks the combined_text    *)
(* column.                                                                 *)
(***************************************************************************)
Bundles == {"loaded", "not_loaded", "mismatched"}

\* the table of a bundle written without the combined_text column
Mismatched(frame) ==
    [i \in DOMAIN frame |->
        [c \in DOMAIN frame[i] \ {"combined_text"} |-> frame[i][c]]]

ServedQueries == QueryPool \cup {<<>>}

InitServe ==
    \E csv \in Corpora, b \in Bundles :
        LET frame == preprocess_dataframe(load_data(csv))
            vz == vectorize_texts(Column(frame, "preprocessed_text"), 1)
        IN  /\ bundle = b
            /\ \E fit \in apply_lsi(vz.tfidf_matrix, 1) :
                IF b = "not_loaded"
                THEN /\ df = NoObject
                     /\ tfidf_vectorizer = NoObject
                     /\ lsi_model = NoObject
                     /\ lsi_vectors = NoObject
                ELSE /\ df = IF b = "mismatched" THEN Mismatched(frame) ELSE frame
                     /\ tfidf_vectorizer = vz.vectorizer
                     /\ lsi_model = fit.lsi_model
                     /\ lsi_vectors = fit.lsi_vectors
            /\ tie_order \in TieOrders(Len(csv))
            /\ phase = "idle"
            /\ query = <<>>
            /\ top_k = 0
            /\ results = <<>>
            /\ pc = "idle"
            /\ run = 0
            /\ input = NoObject
            /\ tfidf_matrix = NoObject
            /\ cluster_labels = NoObject
            /\ kmeans_model = NoObject
            /\ files = [f \in FileNames |-> NoFile]
            /\ writing = FALSE
            /\ completed = {}
            /\ rpc = "idle"
            /\ loaded = NothingLoaded
            /\ route = "none"
            /\ response = NoResponse
            /\ apc = "idle"
            /\ top_terms = 0
            /\ examples_per_cluster = 0
            /\ cluster_analysis = NoAnalysis
            /\ FitIdle
            /\ LabIdle

\* what a request leaves besides its response
Request(name, q, k) ==
    /\ phase = "idle"
    /\ phase' = "answered"
    /\ route' = name
    /\ query' = q
    /\ top_k' = k
    /\ tfidf_vectorizer' = IF bundle = "not_loaded" \/ q = <<>>
                           THEN tfidf_vectorizer
                           ELSE VectorizerAfterQuery(tfidf_vectorizer, q)
    /\ UNCHANGED <<df, lsi_model, lsi_vectors, tie_order, results, mainVars,
                   readerVars, bundle, analysisVars, fitVars, labVars>>

\* GET /?q=...
IndexRoute ==
    \E q \in ServedQueries :
        /\ Request("index", q, WEB_TOP_K)
        /\ response' = IndexResponse(q, bundle # "not_loaded", tfidf_vectorizer,
                                     lsi_model, lsi_vectors, df, tie_order)

\* GET /api/search?q=...
ApiSearch ==
    \E q \in ServedQueries :
        /\ Request("api", q, WEB_TOP_K)
        /\ response' = ApiResponse(q, bundle # "not_loaded", tfidf_vectorizer,
                                   lsi_model, lsi_vectors, df, tie_order)

\* one line typed at the prompt of the interactive tool
InteractiveQuery ==
    \E q \in ServedQueries :
        /\ Request("interactive", q, INTERACTIVE_TOP_K)
        /\ response' = InteractiveOutput(q, bundle # "not_loaded", tfidf_vectorizer,
                                         lsi_model, lsi_vectors, df, tie_order)

\* the caller has the response; the tool waits for the next query
Served ==
    /\ phase = "answered"
    /\ phase' = "idle"
    /\ route' = "none"
    /\ query' = <<>>
    /\ top_k' = 0
    /\ response' = NoResponse
    /\ UNCHANGED <<snapshotVars, tie_order, results, mainVars, readerVars, bundle,
                   analysisVars, fitVars, labVars>>

NextServe == IndexRoute \/ ApiSearch \/ InteractiveQuery \/ Served

ServeSpec == InitServe /\ [][NextServe]_vars

(***************************************************************************)
(* Saving the fitted objects and loading them again: persistence.          *)
(* save_processed_data, save_lsi_vectors, save_models and the models.pkl   *)
(* of main(), then persistence.load_models, load_all_for_search or the     *)
(* load_models of the web tool, with no run of main() beside them.         *)
(***************************************************************************)
\* the records of the datasets saved: those of DocPool, one whose Complaint
\* Type is a number, and one with no Descriptor, which load_data drops
BundleRecords ==
    DocList \o << Located(Doc(<<"311">>, <<"Noise", "Residential">>), NaN),
                  Located(Doc(<<"Noise">>, NaN), <<"QUEENS">>) >>

\* the datasets: records in the order of BundleRecords, as pd.read_csv gives
\* them (reading what to_csv writes of the table gives the table)
BundleCorpora ==
    LET picks == UNION {{p \in [1..n -> DOMAIN BundleRecords] :
                            \A i, m \in 1..n : i < m => p[i] < p[m]} : n \in 1..MaxDocs}
        tables == {[i \in DOMAIN p |-> BundleRecords[p[i]]] : p \in picks}
    IN  {c \in tables : read_csv(to_csv(c)) = c}

Loaders == {"load_models", "load_all_for_search", "web_search.load_models"}

\* the files each loader reads
LoaderFiles(loader) ==
    CASE loader = "load_models" ->
            {"tfidf_vectorizer.pkl", "lsi_model.pkl", "kmeans_model.pkl"}
      [] loader = "load_all_for_search" ->
            {"tfidf_vectorizer.pkl", "lsi_model.pkl", "kmeans_model.pkl",
             "lsi_vectors.npy", "processed_data.csv"}
      [] loader = "web_search.load_models" -> {"models.pkl"}

\* a load that gives the table back in the opposite order of rows
ReadDataReordered(f, data) ==
    IF f = "processed_data.csv" THEN Reversed(read_csv(data)) ELSE data

\* what reading a file gives: pickle.load and np.load give the object that
\* was dumped, pd.read_csv parses the text
ReadData(f, data) == IF f = "processed_data.csv" THEN read_csv(data) ELSE data

\* the objects a loader hands the search, from what it has read
LoadedObjects(loader, read) ==
    IF loader = "web_search.load_models"
    THEN read["models.pkl"].data
    ELSE [ tfidf_vectorizer |-> read["tfidf_vectorizer.pkl"].data,
           lsi_model |-> read["lsi_model.pkl"].data,
           lsi_vectors |-> read["lsi_vectors.npy"].data,
           df |-> read["processed_data.csv"].data ]

\* the objects main() holds after step 5, nothing saved yet
InitBundle ==
    \E csv \in BundleCorpora :
        LET frame == preprocess_dataframe(load_data(csv))
            vz == vectorize_texts(Column(frame, "preprocessed_text"), 1)
        IN  /\ vz.vectorizer.vocabulary_ # <<>>
            /\ \E fit \in apply_lsi(vz.tfidf_matrix, 1) :
                /\ df = frame
                /\ tfidf_vectorizer = vz.vectorizer
                /\ tfidf_matrix = vz.tfidf_matrix
                /\ lsi_model = fit.lsi_model
                /\ lsi_vectors = fit.lsi_vectors
                /\ \E km \in apply_kmeans(fit.lsi_vectors, 1) :
                      /\ cluster_labels = km.cluster_labels
                      /\ kmeans_model = km.kmeans_model
            /\ tie_order \in TieOrders(Len(frame))
            /\ phase = "idle"
            /\ query = <<>>
            /\ top_k = 0
            /\ results = <<>>
            /\ pc = "idle"
            /\ run = 0
            /\ input = NoObject
            /\ files = [f \in FileNames |-> NoFile]
            /\ writing = FALSE
            /\ completed = {}
            /\ rpc = "idle"
            /\ loaded = NothingLoaded
            /\ bundle = "loaded"
            /\ route = "none"
            /\ response = NoResponse
            /\ apc = "idle"
            /\ top_terms = 0
            /\ examples_per_cluster = 0
            /\ cluster_analysis = NoAnalysis
            /\ FitIdle
            /\ LabIdle

\* a file written and closed by save number n
Written(n, data) == [run |-> n, complete |-> TRUE, data |-> data]

\* persistence.save_models(tfidf_vectorizer, lsi_model, kmeans_model), with
\* or without a KMeans model: kmeans_model.pkl is written only with one
SaveModels ==
    /\ rpc = "idle"
    /\ run < MaxRuns
    /\ run' = run + 1
    /\ \E with_kmeans \in BOOLEAN :
          files' = [f \in FileNames |->
                      IF f = "tfidf_vectorizer.pkl" THEN Written(run', tfidf_vectorizer)
                      ELSE IF f = "lsi_model.pkl" THEN Written(run', lsi_model)
                      ELSE IF f = "kmeans_model.pkl" /\ with_kmeans
                      THEN Written(run', kmeans_model)
                      ELSE files[f]]
    /\ UNCHANGED <<snapshotVars, searchVars, pc, input, tfidf_matrix, cluster_labels,
                   kmeans_model, writing, completed, readerVars, toolVars>>

\* save_lsi_vectors, save_processed_data and the models.pkl of step 10
SaveSearchData ==
    /\ rpc = "idle"
    /\ run >= 1
    /\ files["models.pkl"].run # run
    /\ files' = [files EXCEPT
                    !["lsi_vectors.npy"] = Written(run, lsi_vectors),
                    !["processed_data.csv"] = Written(run, to_csv(df)),
                    !["models.pkl"] =
                        Written(run, [ tfidf_vectorizer |-> tfidf_vectorizer,
                                       lsi_model |-> lsi_model,
                                       lsi_vectors |-> lsi_vectors, df |-> df ])]
    /\ UNCHANGED <<snapshotVars, searchVars, pc, run, input, tfidf_matrix,
                   cluster_labels, kmeans_model, writing, completed, readerVars,
                   toolVars>>

\* one of the loaders reads its files; kmeans_model.pkl is read if it exists
LoadBundle ==
    /\ rpc = "idle"
    /\ files["models.pkl"].run = run
    /\ run >= 1
    /\ \E loader \in Loaders :
        /\ route' = loader
        /\ loaded' = [f \in DOMAIN loaded |->
                        IF f \in LoaderFiles(loader) /\ files[f].run # 0
                        THEN [files[f] EXCEPT !.data = ReadData(f, files[f].data)]
                        ELSE NoFile]
    /\ rpc' = "loaded"
    /\ UNCHANGED <<snapshotVars, searchVars, mainVars, bundle, response, analysisVars, fitVars, labVars>>

\* a probe query, asked of the objects in memory and of the loaded ones
Probe ==
    /\ rpc = "loaded"
    /\ route # "load_models"
    /\ phase = "idle"
    /\ \E q \in QueryPool, k \in 1..MaxTopK :
        LET got == LoadedObjects(route, loaded)
        IN  /\ query' = q
            /\ top_k' = k
            /\ results' = find_similar_incidents(q, tfidf_vectorizer, lsi_model,
                                                 lsi_vectors, df, k, tie_order)
            /\ response' = [results |->
                               find_similar_incidents(q, got.tfidf_vectorizer,
                                                      got.lsi_model, got.lsi_vectors,
                                                      got.df, k, tie_order)]
    /\ phase' = "answered"
    /\ UNCHANGED <<snapshotVars, tie_order, mainVars, readerVars, bundle, route,
                   analysisVars, fitVars, labVars>>

\* the probe has been compared
ProbeDone ==
    /\ rpc = "loaded"
    /\ phase = "answered"
    /\ phase' = "idle"
    /\ query' = <<>>
    /\ top_k' = 0
    /\ results' = <<>>
    /\ response' = NoResponse
    /\ UNCHANGED <<snapshotVars, tie_order, mainVars, readerVars, bundle, route,
                   analysisVars, fitVars, labVars>>

\* the tool that loaded ends
Unload ==
    /\ rpc = "loaded"
    /\ phase = "idle"
    /\ rpc' = "idle"
    /\ loaded' = NothingLoaded
    /\ route' = "none"
    /\ UNCHANGED <<snapshotVars, searchVars, mainVars, bundle, response, analysisVars, fitVars, labVars>>

NextBundle == SaveModels \/ SaveSearchData \/ LoadBundle \/ Probe \/ ProbeDone \/ Unload

BundleSpec == InitBundle /\ [][NextBundle]_vars

(***************************************************************************)
(* Fitting twice: vectorize_texts, apply_lsi and apply_kmeans on the same  *)
(* documents.  TruncatedSVD and KMeans are functions of their input and of *)
(* the generator their random_state seeds: of the fits they may return,    *)
(* the one a seed gives is settled the first time the seed is used, and    *)
(* kept in library.                                                        *)
(***************************************************************************)
\* an estimator made with random_state=None is seeded from the system, and
\* bound by no earlier fit
Unbound(seed_given) == FALSE

\* an estimator made with random_state=seed_given repeats what that seed
\* gave before
Bound(seed_given) == library[seed_given].used

\* cluster_centers_: the mean of the latent rows of each cluster, kept as
\* the rows it is the mean of
Centroids(vectors, labels, n_clusters) ==
    [c \in 0..(n_clusters - 1) |->
        LET members == ClusterMask(labels, c)
        IN  [size |-> Len(members),
             mean_of |-> [p \in DOMAIN members |-> vectors[members[p]]]]]

\* the datasets on which the three stages return
FitDatasets ==
    {inp \in [csv : AnalysisCorpora, min_df : {1}, n_components : 1..MaxComponents,
              n_clusters : 1..MaxClusters] :
        LET frame == preprocess_dataframe(load_data(inp.csv))
            vz == vectorize_texts(Column(frame, "preprocessed_text"), inp.min_df)
        IN  /\ vz.vectorizer.vocabulary_ # <<>>
            /\ ActualNComponents(inp.n_components, Len(vz.vectorizer.vocabulary_)) >= 1
            /\ apply_lsi(vz.tfidf_matrix, inp.n_components) # {}
            /\ inp.n_clusters <= Len(frame)}

InitFit ==
    /\ input \in FitDatasets
    /\ df = preprocess_dataframe(load_data(input.csv))
    /\ FitIdle
    /\ LabIdle
    /\ tfidf_vectorizer = NoObject
    /\ tfidf_matrix = NoObject
    /\ lsi_model = NoObject
    /\ lsi_vectors = NoObject
    /\ cluster_labels = NoObject
    /\ kmeans_model = NoObject
    /\ tie_order = NoObject
    /\ phase = "idle"
    /\ query = <<>>
    /\ top_k = 0
    /\ results = <<>>
    /\ pc = "idle"
    /\ run = 0
    /\ files = [f \in FileNames |-> NoFile]
    /\ writing = FALSE
    /\ completed = {}
    /\ rpc = "idle"
    /\ loaded = NothingLoaded
    /\ bundle = "loaded"
    /\ route = "none"
    /\ response = NoResponse
    /\ apc = "idle"
    /\ top_terms = 0
    /\ examples_per_cluster = 0
    /\ cluster_analysis = NoAnalysis

\* what a fit leaves of the one before it
Kept ==
    IF fitted = 0 THEN NoFit
    ELSE [random_state |-> random_state,
          lsi_vectors |-> lsi_vectors,
          cluster_labels |-> cluster_labels,
          centroids |-> Centroids(lsi_vectors, cluster_labels, kmeans_model.n_clusters)]

\* steps 3 to 5 of main() on the loaded documents, with one random_state
Fit ==
    /\ fitted < MaxFits
    /\ fitted' = fitted + 1
    /\ previous' = Kept
    /\ \E s \in Seeds :
        /\ random_state' = s
        /\ LET vz == vectorize_texts(Column(df, "preprocessed_text"), input.min_df)
           IN  /\ tfidf_matrix' = vz.tfidf_matrix
               /\ tfidf_vectorizer' = vz.vectorizer
               /\ IF Bound(s)
                  THEN /\ lsi_model' = library[s].lsi_model
                       /\ lsi_vectors' = library[s].lsi_vectors
                       /\ cluster_labels' = library[s].cluster_labels
                       /\ kmeans_model' = library[s].kmeans_model
                       /\ library' = library
                  ELSE /\ \E lsi \in apply_lsi(vz.tfidf_matrix, input.n_components) :
                            /\ lsi_model' = lsi.lsi_model
                            /\ lsi_vectors' = lsi.lsi_vectors
                       /\ \E km \in apply_kmeans(lsi_vectors', input.n_clusters) :
                            /\ cluster_labels' = km.cluster_labels
                            /\ kmeans_model' = km.kmeans_model
                       /\ library' = [library EXCEPT ![s] =
                                        [used |-> TRUE,
                                         lsi_model |-> lsi_model',
                                         lsi_vectors |-> lsi_vectors',
                                         cluster_labels |-> cluster_labels',
                                         kmeans_model |-> kmeans_model']]
    /\ UNCHANGED <<df, searchVars, pc, run, input, files, writing, completed,
                   readerVars, serveVars, analysisVars, labVars>>

\* the outputs are dropped, to fit again
Refit ==
    /\ fitted = MaxFits
    /\ fitted' = 0
    /\ random_state' = 0
    /\ previous' = NoFit
    /\ tfidf_vectorizer' = NoObject
    /\ tfidf_matrix' = NoObject
    /\ lsi_model' = NoObject
    /\ lsi_vectors' = NoObject
    /\ cluster_labels' = NoObject
    /\ kmeans_model' = NoObject
    /\ UNCHANGED <<df, searchVars, pc, run, input, files, writing, completed,
                   readerVars, serveVars, analysisVars, library, labVars>>

NextFit == Fit \/ Refit

FitSpec == InitFit /\ [][NextFit]_vars

(***************************************************************************)
(* lab2/script.py: the rate limiter of make_request.  Time is counted in   *)
(* tenths of a second, the unit of the margin rate_limit adds to its       *)
(* sleep, and a recorded request is kept as its age, the time since it was *)
(* recorded; ages of TIME_WINDOW and more are all alike to the code and    *)
(* are kept as TIME_WINDOW.                                                *)
(***************************************************************************)
MAX_REQUESTS == 40

TIME_WINDOW == 10

\* the 0.1 s rate_limit adds to its sleep is one tenth
TenthsPerSecond == 10

Window == TIME_WINDOW * TenthsPerSecond

\* the ages of the recorded requests after d tenths more
Aged(times, d) == [i \in DOMAIN times |-> Min(times[i] + d, Window)]

\* [t for t in request_times if current_time - t < TIME_WINDOW]
InWindow(times) ==
    LET Young(age) == age < Window
    IN  SelectSeq(times, Young)

\* a limiter that never waits
NoSleep(times) == 0

\* TIME_WINDOW - (current_time - request_times[0]) + 0.1 when the list is
\* full, and no sleep otherwise
SleepTime(times) ==
    IF Len(times) >= MAX_REQUESTS
    THEN LET sleep_time == Window - times[1] + 1
         IN  IF sleep_time > 0 THEN sleep_time ELSE 0
    ELSE 0

\* the list rate_limit leaves after the first clean-up, a sleep that took
\* late tenths longer than asked, the second clean-up and the append
rate_limit(times, late) ==
    LET cleaned == InWindow(times)
        sleep_time == SleepTime(cleaned)
    IN  IF sleep_time > 0
        THEN [slept |-> sleep_time + late,
              request_times |-> Append(InWindow(Aged(cleaned, sleep_time + late)), 0)]
        ELSE [slept |-> 0, request_times |-> Append(cleaned, 0)]

\* nothing loaded, nothing fitted, no query: the project's tools are not run
NothingRun ==
    /\ df = NoObject
    /\ tfidf_vectorizer = NoObject
    /\ lsi_model = NoObject
    /\ lsi_vectors = NoObject
    /\ tie_order = NoObject
    /\ phase = "idle"
    /\ query = <<>>
    /\ top_k = 0
    /\ results = <<>>
    /\ MainIdle

InitLimiter == NothingRun

\* the caller works, or a request is in flight: time passes
Elapse ==
    /\ \E d \in 1..MaxElapse :
          /\ request_times' = Aged(request_times, d * ElapseStep)
          /\ recent' = InWindow(Aged(recent, d * ElapseStep))
    /\ request_times' # request_times \/ recent' # recent
    /\ UNCHANGED <<snapshotVars, searchVars, mainVars, readerVars, serveVars,
                   analysisVars, fitVars, slept, requests, pairVars, pagingVars>>

\* make_request: rate_limit(), then the request is sent
MakeRequest ==
    /\ requests < MaxRequests
    /\ requests' = requests + 1
    /\ \E late \in 0..MaxLate :
          LET limited == rate_limit(request_times, late)
          IN  /\ request_times' = limited.request_times
              /\ slept' = limited.slept
              /\ recent' = Append(InWindow(Aged(recent, limited.slept)), 0)
    /\ UNCHANGED <<snapshotVars, searchVars, mainVars, readerVars, serveVars,
                   analysisVars, fitVars, pairVars, pagingVars>>

NextLimiter == Elapse \/ MakeRequest

LimiterSpec == InitLimiter /\ [][NextLimiter]_vars

(***************************************************************************)
(* lab2/script.py: get_all_similar_pairs.  A movie is its (id, title)      *)
(* tuple; the API answers a request for similar movies with a list of ids, *)
(* or the request raises.                                                  *)
(***************************************************************************)
\* results[:5]
SIMILAR_KEPT == 5

MovieIds == 1..MaxId

\* the lists of at most n elements of S
RECURSIVE ListsUpTo(_, _)
ListsUpTo(S, n) ==
    IF n = 0 THEN {<<>>}
    ELSE LET shorter == ListsUpTo(S, n - 1)
         IN  shorter \cup {Append(l, x) : l \in {m \in shorter : Len(m) = n - 1}, x \in S}

\* the movie lists a caller may pass
MovieLists == ListsUpTo(MovieIds \X {"title"}, MaxMovies)

\* the results the API may give for one movie
SimilarResults == ListsUpTo(MovieIds, MaxResults)

\* get_similar_movies, given the results of the response
get_similar_movies(api_results) == SliceTo(api_results, SIMILAR_KEPT)

\* tuple(sorted([movie_id, similar_id]))
SortedPair(movie_id, similar_id) ==
    IF movie_id <= similar_id THEN <<movie_id, similar_id>> ELSE <<similar_id, movie_id>>

InitPairs == NothingRun

\* get_all_similar_pairs(api_key, movies) is called
StartPairs ==
    /\ pair_pc = "idle"
    /\ movies' \in MovieLists
    /\ pairs' = {}
    /\ idx' = 0
    /\ pair_pc' = "running"
    /\ UNCHANGED <<snapshotVars, searchVars, mainVars, readerVars, serveVars,
                   analysisVars, fitVars, limiterVars, pagingVars>>

\* one pass of the loop: the similar movies of the next movie are asked
\* for and their pairs added, or the request raises and the movie is skipped
ProcessMovie ==
    /\ pair_pc = "running"
    /\ idx < Len(movies)
    /\ idx' = idx + 1
    /\ \E raised \in BOOLEAN, api_results \in SimilarResults :
          LET movie_id == movies[idx'][1]
              similar_ids == get_similar_movies(api_results)
          IN  pairs' = IF raised THEN pairs
                       ELSE pairs \cup {SortedPair(movie_id, similar_ids[i]) :
                                            i \in DOMAIN similar_ids}
    /\ UNCHANGED <<snapshotVars, searchVars, mainVars, readerVars, serveVars,
                   analysisVars, fitVars, limiterVars, pair_pc, movies, pagingVars>>

\* the loop is over: the set is returned
ReturnPairs ==
    /\ pair_pc = "running"
    /\ idx = Len(movies)
    /\ pair_pc' = "returned"
    /\ UNCHANGED <<snapshotVars, searchVars, mainVars, readerVars, serveVars,
                   analysisVars, fitVars, limiterVars, movies, idx, pairs, pagingVars>>

\* the caller has saved the pairs
PairsSaved ==
    /\ pair_pc = "returned"
    /\ pair_pc' = "idle"
    /\ movies' = <<>>
    /\ idx' = 0
    /\ pairs' = {}
    /\ UNCHANGED <<snapshotVars, searchVars, mainVars, readerVars, serveVars,
                   analysisVars, fitVars, limiterVars, pagingVars>>

NextPairs == StartPairs \/ ProcessMovie \/ ReturnPairs \/ PairsSaved

PairsSpec == InitPairs /\ [][NextPairs]_vars

(***************************************************************************)
(* lab2/script.py: the paging loop of get_300_comedy_movies.  A response   *)
(* of the API is its results, a list of movies, with the page and          *)
(* total_pages fields, 0 standing for a field that is absent.              *)
(***************************************************************************)
\* the number of movies asked for
WANTED == 300

\* the lengths a page of results may have
PageLengths == {0, MaxPageLen \div 2, MaxPageLen}

\* a page of n movies whose ids follow first, in one order or the other
Results(first, n, descending) ==
    [i \in 1..n |-> [id |-> IF descending THEN first + n - i ELSE first + i - 1,
                     title |-> "title"]]

\* the responses the API may give to a request for one page
Responses(requested, first) ==
    [results : {Results(first, n, d) : n \in PageLengths, d \in BOOLEAN},
     page : {0, requested},
     total_pages : {0, requested, requested + 1}]

\* (movie["id"], movie["title"])
MovieTuple(movie) == <<movie.id, movie.title>>

\* the list with the results put before it
Prepended(list, page_results) ==
    [i \in 1..Min(Len(page_results), WANTED - Len(list)) |-> MovieTuple(page_results[i])] \o list

\* the for loop: the results are appended one by one until there are 300
Appended(list, page_results) ==
    list \o [i \in 1..Min(Len(page_results), WANTED - Len(list)) |-> MovieTuple(page_results[i])]

InitPaging == NothingRun

\* get_300_comedy_movies(api_key) is called and has the genre id
StartPaging ==
    /\ page_pc = "idle"
    /\ page_pc' = "loop"
    /\ page' = 1
    /\ collected' = <<>>
    /\ stream' = <<>>
    /\ stop' = "none"
    /\ UNCHANGED <<snapshotVars, searchVars, mainVars, readerVars, serveVars,
                   analysisVars, fitVars, limiterVars, pairVars>>

\* one pass of the while loop: a page is requested and its results taken
FetchPage ==
    /\ page_pc = "loop"
    /\ Len(collected) < WANTED
    /\ \E data \in Responses(page, Len(stream) + 1) :
          /\ stream' = stream \o data.results
          /\ IF data.results = <<>>
             THEN /\ stop' = "empty_page"
                  /\ page_pc' = "exit"
                  /\ UNCHANGED <<collected, page>>
             ELSE /\ collected' = Appended(collected, data.results)
                  /\ IF data.page >= data.total_pages
                     THEN /\ stop' = "last_page"
                          /\ page_pc' = "exit"
                          /\ page' = page
                     ELSE /\ page' = page + 1
                          /\ UNCHANGED <<stop, page_pc>>
    /\ UNCHANGED <<snapshotVars, searchVars, mainVars, readerVars, serveVars,
                   analysisVars, fitVars, limiterVars, pairVars>>

\* the loop is left, by a break or by its condition: return movies[:300]
ReturnMovies ==
    /\ \/ page_pc = "exit"
       \/ page_pc = "loop" /\ Len(collected) >= WANTED
    /\ stop' = IF page_pc = "exit" THEN stop ELSE "enough"
    /\ collected' = SliceTo(collected, WANTED)
    /\ page_pc' = "returned"
    /\ UNCHANGED <<snapshotVars, searchVars, mainVars, readerVars, serveVars,
                   analysisVars, fitVars, limiterVars, pairVars, page, stream>>

\* main() has saved the movies
MoviesSaved ==
    /\ page_pc = "returned"
    /\ page_pc' = "idle"
    /\ page' = 0
    /\ collected' = <<>>
    /\ stream' = <<>>
    /\ stop' = "none"
    /\ UNCHANGED <<snapshotVars, searchVars, mainVars, readerVars, serveVars,
                   analysisVars, fitVars, limiterVars, pairVars>>

NextPaging == StartPaging \/ FetchPage \/ ReturnMovies \/ MoviesSaved

PagingSpec == InitPaging /\ [][NextPaging]_vars

\* the interpreter goes on running the function it is in
PagingLive == PagingSpec /\ WF_vars(FetchPage) /\ WF_vars(ReturnMovies)

\* main() run again and again on one dataset while the search tools load
NextStore == Rerun \/ Main \/ Cancel \/ Reader

StoreSpec == InitPipeline /\ [][NextStore]_vars

(***************************************************************************)
(* Properties of the similarity search.                                    *)
(***************************************************************************)
NDocs == Len(df)

Answered == phase = "answered"

\* the similarities find_similar_incidents computed for the call in hand
Sims == QuerySimilarities(query, tfidf_vectorizer, lsi_model, lsi_vectors)

Returned(i) == \E pos \in DOMAIN results : results[pos].index = i - 1

\* the query has no term of the fitted vocabulary
ZeroQuery == IsZeroRow(TransformText(tfidf_vectorizer, preprocess_text(query)))

\* the documents whose normalised text is the query text
Identical == {i \in DOMAIN df : df[i]["preprocessed_text"] = query}

\* C1: for every positive top_k and every corpus of N documents the call
\* returns exactly min(top_k, N) results, each for a distinct document index
\* in [0, N); with top_k > N it returns all N documents, nothing padded.
C1_ResultCount ==
    (Answered /\ top_k >= 1) =>
        /\ Len(results) = Min(top_k, NDocs)
        /\ \A pos \in DOMAIN results : results[pos].index \in 0..(NDocs - 1)
        /\ \A p1, p2 \in DOMAIN results :
              p1 # p2 => results[p1].index # results[p2].index

C1_Witness ==
    /\ Answered
    /\ NDocs >= 2
    /\ top_k > NDocs
    /\ Len(results) = NDocs

\* C2: the returned list is ordered by non-increasing similarity, and no
\* document left out of it has a similarity strictly greater than a document
\* that is in it.
C2_Ranked ==
    Answered =>
        LET sims == Sims
        IN  /\ \A pos \in DOMAIN results :
                  results[pos].similarity = sims[results[pos].index + 1]
            /\ \A p1, p2 \in DOMAIN results :
                  p1 < p2 => ~SimLess(results[p1].similarity, results[p2].similarity)
            /\ \A i \in DOMAIN df : \A pos \in DOMAIN results :
                  ~Returned(i) => ~SimLess(results[pos].similarity, sims[i])

C2_Witness ==
    /\ Answered
    /\ top_k >= 1
    /\ Len(results) >= 2
    /\ SimLess(results[2].similarity, results[1].similarity)
    /\ \E i \in DOMAIN df : ~Returned(i) /\ SimLess(Sims[i], results[2].similarity)

\* C3: whenever two stored documents have exactly equal similarity to the
\* query, the one with the smaller document index is ranked first, and when
\* the top_k cut falls inside a group of tied documents the smaller indices
\* are kept.
C3_TiesAscendingIndex ==
    (Answered /\ top_k >= 1) =>
        LET sims == Sims
        IN  /\ \A p1, p2 \in DOMAIN results :
                  (p1 < p2 /\ results[p1].similarity = results[p2].similarity)
                      => results[p1].index < results[p2].index
            /\ \A i \in DOMAIN df : \A pos \in DOMAIN results :
                  (~Returned(i) /\ sims[i] = results[pos].similarity)
                      => results[pos].index < i - 1

\* C4: for a query identical to a stored document's normalised text, that
\* document's similarity is the maximum over all documents, 1.0, and it is
\* ranked first; of several such duplicates the lowest index is ranked first.
C4_IdenticalRankedFirst ==
    (Answered /\ top_k >= 1 /\ Identical # {}) =>
        LET sims == Sims
            first == CHOOSE i \in Identical : \A m \in Identical : i <= m
        IN  /\ \A m \in DOMAIN df : ~SimLess(sims[first], sims[m])
            /\ sims[first] = SimOne
            /\ results[1].index = first - 1

EndToEndCorpus ==
    << <<"Noise", "-", "Residential">>,
       <<"Noise", "-", "Street", "/", "Sidewalk">>,
       <<"Illegal", "Parking", "-", "Blocked", "Driveway">> >>

\* C5: on the corpus "Noise - Residential", "Noise - Street/Sidewalk",
\* "Illegal Parking - Blocked Driveway" with min_df = 1 (all 8 terms kept)
\* and 2 latent components, the query "Noise - Residential" with top_k = 1
\* returns document 0 with similarity 1.0.
C5_EndToEnd ==
    ( /\ Answered
      /\ Column(df, "combined_text") = EndToEndCorpus
      /\ Len(tfidf_vectorizer.vocabulary_) = 8
      /\ lsi_model.n_components = 2
      /\ query = <<"Noise", "-", "Residential">>
      /\ top_k = 1 )
    => ( /\ Len(results) = 1
         /\ results[1].index = 0
         /\ results[1].similarity = SimOne )

\* C6: a query with no term of the fitted vocabulary raises nothing: the
\* call returns min(top_k, N) results and every returned similarity is
\* exactly 0.
C6_ZeroQuery ==
    (Answered /\ ZeroQuery /\ top_k >= 1) =>
        /\ Len(results) = Min(top_k, NDocs)
        /\ \A pos \in DOMAIN results : results[pos].similarity = SimZero

C6_Witness ==
    /\ Answered
    /\ ZeroQuery
    /\ query # <<>>
    /\ Len(results) >= 2
    /\ \E i \in DOMAIN lsi_vectors : \E j \in DOMAIN lsi_vectors[i] : lsi_vectors[i][j].n # 0

LsiDone ==
    {Stages[i] : i \in {i \in DOMAIN Stages : i > 5}} \cup {"complete"}

MetadataFile == files["metadata.json"]

C8_CancelledRunLeavesNothing ==
    pc \in {"cancelled", "failed"} =>
        /\ \A f \in FileNames : files[f].run # run
        /\ \E r \in completed \cup {0} : \A f \in FileNames : files[f].run = r

\* C9: a tool loading while main() rebuilds the output directory never
\* reads a file cut short, and never holds files written by two different
\* runs.
C9_LoadIsOneCompleteSave ==
    \A f, g \in DOMAIN loaded :
        (loaded[f].run # 0 /\ loaded[g].run # 0) =>
            /\ loaded[f].complete
            /\ loaded[f].run = loaded[g].run


\* the stages of main() from position i on
StagesFrom(i) == {Stages[m] : m \in {m \in DOMAIN Stages : m >= i}} \cup {"complete"}

\* C11: in every run the fit stages execute in the order vectorize, LSI,
\* KMeans, cluster analysis: a stage starts only when its predecessor's
\* output is there and its own is not, and once a stage has returned its
\* output no later stage of the run changes it.
C11_StagesInOrder ==
    /\ [] /\ pc = "vectorize_texts" =>
                /\ tfidf_matrix = NoObject
                /\ lsi_vectors = NoObject
                /\ cluster_labels = NoObject
          /\ pc = "apply_lsi" =>
                /\ tfidf_matrix # NoObject
                /\ lsi_vectors = NoObject
                /\ cluster_labels = NoObject
          /\ pc = "apply_kmeans" =>
                /\ tfidf_matrix # NoObject
                /\ lsi_vectors # NoObject
                /\ cluster_labels = NoObject
          /\ pc = "analyze_clusters" =>
                /\ tfidf_matrix # NoObject
                /\ lsi_vectors # NoObject
                /\ cluster_labels # NoObject
    /\ [][ pc' # "load_data" =>
             /\ pc \in StagesFrom(4) =>
                   /\ tfidf_matrix' = tfidf_matrix
                   /\ tfidf_vectorizer' = tfidf_vectorizer
             /\ pc \in StagesFrom(6) =>
                   /\ lsi_vectors' = lsi_vectors
                   /\ lsi_model' = lsi_model
             /\ pc \in StagesFrom(8) =>
                   /\ cluster_labels' = cluster_labels
                   /\ kmeans_model' = kmeans_model ]_vars

C11_Witness ==
    /\ pc = "complete"
    /\ Len(df) >= 2
    /\ kmeans_model.n_clusters >= 2

\* the run in hand was started on a dataset that leaves the vectorizer no
\* term: no document, or no term frequent enough for min_df
NoTermInput ==
    LET frame == preprocess_dataframe(load_data(input.csv))
    IN  vectorize_texts(Column(frame, "preprocessed_text"),
                        input.min_df).vectorizer.vocabulary_ = <<>>

\* C12: a run on a corpus of zero documents, or one where no term survives
\* min_df, ends as a reported configuration error, not as an unhandled
\* exception, and ends before any file of that run is written.
C12_EmptyCorpusIsConfigurationError ==
    (pc \in {"complete", "failed", "cancelled", "configuration_error"} /\ NoTermInput) =>
        /\ pc = "configuration_error"
        /\ \A f \in FileNames : files[f].run # run

\* C15: an optional metadata field whose value is absent for the document
\* (no such column, or an empty cell) is left out of the result; it is
\* never there with a placeholder such as '' or 'nan'.
C15_AbsentFieldsOmitted ==
    Answered =>
        \A pos \in DOMAIN results : \A f \in DOMAIN OptionalColumns :
            f \in DOMAIN results[pos] =>
                /\ OptionalColumns[f] \in DOMAIN df[results[pos].index + 1]
                /\ df[results[pos].index + 1][OptionalColumns[f]] # NaN
                /\ results[pos][f] \notin {<<>>, <<"nan">>}

\* C13: a call with top_k <= 0 reports an error and returns no ranked
\* result; a negative top_k never yields a non-empty list.
C13_NonPositiveTopKRejected ==
    (Answered /\ top_k <= 0) => results = <<>>


(***************************************************************************)
(* Properties of the cluster report.                                       *)
(***************************************************************************)
Analysed == apc = "analysed"

Reported == Analysed /\ ~cluster_analysis.raised

\* the documents carrying label c
Members(c) == {i \in DOMAIN cluster_labels : cluster_labels[i] = c}

\* C16: for each reported cluster, size is the number of documents carrying
\* that label, and the examples are the first min(examples_per_cluster, size)
\* member documents in original document order.
C16_SizeAndFirstExamples ==
    Reported =>
        \A c \in DOMAIN cluster_analysis.value :
            LET entry == cluster_analysis.value[c]
            IN  /\ entry.size = Cardinality(Members(c))
                /\ Len(entry.examples) = Min(examples_per_cluster, entry.size)
                /\ \A p \in DOMAIN entry.examples :
                      \E i \in Members(c) :
                          /\ Cardinality({m \in Members(c) : m < i}) = p - 1
                          /\ entry.examples[p]["combined_text"] = df[i]["combined_text"]
                          /\ entry.examples[p]["Complaint Type"] = df[i]["Complaint Type"]
                          /\ entry.examples[p]["Descriptor"] = df[i]["Descriptor"]

\* a report of two clusters, one of them with more members than examples
C16_Witness ==
    /\ Reported
    /\ Cardinality(DOMAIN cluster_analysis.value) >= 2
    /\ \E c \in DOMAIN cluster_analysis.value :
          /\ cluster_analysis.value[c].size > examples_per_cluster
          /\ Len(cluster_analysis.value[c].examples) = examples_per_cluster

\* the vocabulary index of a term of the report
TermIndex(term) ==
    CHOOSE t \in DOMAIN tfidf_vectorizer.vocabulary_ :
        tfidf_vectorizer.vocabulary_[t] = term

\* the mean TF-IDF weight of term t over the members of cluster c
ClusterScore(c, t) == MeanScore(tfidf_matrix, ClusterMask(cluster_labels, c), t)

\* C17: get_cluster_top_terms returns at most top_terms terms, ordered by
\* mean TF-IDF weight over the cluster's members, descending; of two terms
\* of equal mean weight the one with the smaller vocabulary index comes
\* first, and is the one kept where the list is cut.
C17_TopTermsRanked ==
    Reported =>
        \A c \in DOMAIN cluster_analysis.value :
            LET T == cluster_analysis.value[c].top_terms
                shown == {TermIndex(T[p].term) : p \in DOMAIN T}
            IN  /\ Len(T) <= top_terms
                /\ \A p \in DOMAIN T :
                      T[p].score = ClusterScore(c, TermIndex(T[p].term))
                /\ \A p, r \in DOMAIN T :
                      p < r =>
                          /\ ~ScoreLess(T[p].score, T[r].score)
                          /\ T[p].score = T[r].score =>
                                TermIndex(T[p].term) < TermIndex(T[r].term)
                /\ \A p \in DOMAIN T :
                      \A t \in DOMAIN tfidf_vectorizer.vocabulary_ \ shown :
                          /\ ~ScoreLess(T[p].score, ClusterScore(c, t))
                          /\ T[p].score = ClusterScore(c, t) =>
                                TermIndex(T[p].term) < t

\* C18: analyze_clusters gives one entry for every cluster id in
\* [0, n_clusters), the ids no document was assigned to included, so every
\* id that occurs in cluster_labels has an entry.
C18_EveryClusterReported ==
    Analysed =>
        /\ ~cluster_analysis.raised
        /\ DOMAIN cluster_analysis.value = 0..(kmeans_model.n_clusters - 1)

\* C19: reporting on a cluster with no member documents does not error, and
\* gives size 0, no examples and no top terms.
C19_EmptyClusterReported ==
    Analysed =>
        \A c \in 0..(Cardinality(Range(cluster_labels)) - 1) :
            Members(c) = {} =>
                /\ ~cluster_analysis.raised
                /\ cluster_analysis.value[c].size = 0
                /\ cluster_analysis.value[c].examples = <<>>
                /\ cluster_analysis.value[c].top_terms = <<>>

\* C20: analyze_clusters and get_cluster_top_terms are read-only: the call
\* leaves the caller's document table (no 'cluster' column added), the
\* cluster_labels array, the TF-IDF matrix and the fitted vectorizer as
\* they were.
C20_AnalysisReadOnly ==
    [][(apc = "idle" /\ apc' = "analysed") =>
            /\ df' = df
            /\ \A i \in DOMAIN df' : "cluster" \notin DOMAIN df'[i]
            /\ cluster_labels' = cluster_labels
            /\ tfidf_matrix' = tfidf_matrix
            /\ tfidf_vectorizer' = tfidf_vectorizer]_vars

\* a report of two clusters over a table of several documents has been made
C20_Witness ==
    /\ Reported
    /\ Len(df) >= 2
    /\ Cardinality(DOMAIN cluster_analysis.value) >= 2
    /\ \A i \in DOMAIN df : "cluster" \notin DOMAIN df[i]

(***************************************************************************)
(* Properties of the serving tools.                                        *)
(***************************************************************************)
\* what each entry point gives for a search that succeeded with no result
EmptyResultResponse ==
    CASE route = "index" -> RenderPage(query, <<>>, NoStats)
      [] route = "api" -> [status |-> 200, query |-> query, results |-> <<>>]
      [] route = "interactive" -> [printed |-> "No similar incidents found."]
      [] OTHER -> NoResponse

\* C14: for every query, what the web page route, the API route and the
\* interactive tool give when the models are not loaded, or the search
\* raised on an unusable bundle, differs from what they give for a
\* successful search with an empty result list.
C14_LoadFailureDistinct ==
    (phase = "answered" /\ route # "none" /\ query # <<>> /\ bundle # "loaded") =>
        response # EmptyResultResponse

(***************************************************************************)
(* Properties of saving and loading.                                       *)
(***************************************************************************)
\* a probe has been answered from the objects a loader returned
Probed == phase = "answered" /\ route \in {"load_all_for_search", "web_search.load_models"}

\* C21: round trip: for every probe query, find_similar_incidents on the
\* objects a loader returns for the saved bundle gives the same ranked
\* indices, scores and display fields as the same query on the objects in
\* memory before saving.
C21_RoundTrip == Probed => response.results = results

(***************************************************************************)
(* Properties of fitting.                                                  *)
(***************************************************************************)
\* the last two fits were made with the same random_state
SameSeedTwice == fitted >= 2 /\ previous.random_state = random_state

KnownTerms(vectorizer, text) ==
    LET Known(w) == w \in Range(vectorizer.vocabulary_)
    IN  SelectSeq(text, Known)

ModelsLoaded == rpc = "loaded" /\ route = "load_models"

\* C24: a save replaces the saved model set: whatever load_models returns
\* was written by the most recent save_models call, so a KMeans model of an
\* earlier save is not returned after a save without one.
C24_SaveReplacesModelSet ==
    ModelsLoaded =>
        \A f \in LoaderFiles("load_models") : loaded[f] = NoFile \/ loaded[f].run = run

(***************************************************************************)
(* Properties of the number of components.                                 *)
(***************************************************************************)
\* the run's dataset has a vocabulary, and too few terms for one component
NonPositiveComponents ==
    /\ pc # "idle"
    /\ LET frame == preprocess_dataframe(load_data(input.csv))
           vz == vectorize_texts(Column(frame, "preprocessed_text"), input.min_df)
       IN  /\ vz.vectorizer.vocabulary_ # <<>>
           /\ ActualNComponents(input.n_components, Len(vz.vectorizer.vocabulary_)) < 1

\* C25: apply_lsi never runs the factorization with a non-positive number
\* of components: a run whose number of components is non-positive after
\* the clamp to vocab_size - 1 ends as a reported configuration error,
\* before any stage has run and written a file.
C25_NonPositiveComponentsReported ==
    (pc \in {"complete", "failed", "configuration_error"} /\ NonPositiveComponents) =>
        /\ pc = "configuration_error"
        /\ \A f \in FileNames : files[f].run # run

(***************************************************************************)
(* Properties of the rate limiter.                                         *)
(***************************************************************************)
\* C26: at most MAX_REQUESTS requests are recorded within any window of
\* TIME_WINDOW seconds; when the list is full rate_limit sleeps until the
\* oldest recorded request has left the window before it records the next
\* one; and the recorded list never has more than MAX_REQUESTS entries.
C26_RateLimited ==
    [][MakeRequest =>
        /\ Len(recent') <= MAX_REQUESTS
        /\ Len(request_times') <= MAX_REQUESTS
        /\ Len(InWindow(request_times)) >= MAX_REQUESTS =>
              /\ slept' > 0
              /\ InWindow(request_times)[1] + slept' >= Window
              /\ Len(request_times') <= Len(InWindow(request_times))]_vars

\* the limiter slept, the oldest request left, and the window is full again
C26_Witness ==
    /\ slept > 0
    /\ Len(recent) = MAX_REQUESTS
    /\ Len(request_times) = MAX_REQUESTS
    /\ request_times[1] > 0

(***************************************************************************)
(* Properties of the similar pairs.                                        *)
(***************************************************************************)
\* C27: every pair stored by get_all_similar_pairs is a tuple (id1, id2)
\* with id1 strictly less than id2, whatever the movies and whatever the
\* lists of similar ids the API returns, and each unordered pair of movies
\* is stored at most once.
C27_PairsOrderedAndUnique ==
    /\ \A p \in pairs : p[1] < p[2]
    /\ \A p, r \in pairs : {p[1], p[2]} = {r[1], r[2]} => p = r

(***************************************************************************)
(* Properties of the paging loop.                                          *)
(***************************************************************************)
\* the first 300 movies of what the API returned, as tuples
FirstOfStream ==
    [i \in 1..Min(WANTED, Len(stream)) |-> MovieTuple(stream[i])]

\* C28: whatever the API answers, the paging loop of get_300_comedy_movies
\* ends, on an empty page, on page >= total_pages or with 300 movies, and
\* what is returned is at most 300 (id, title) tuples in the order the API
\* returned them.
C28_PagingEndsWithAtMost300 ==
    /\ (page_pc = "loop") ~> (page_pc = "returned")
    /\ [](page_pc = "returned" =>
            /\ stop \in {"empty_page", "last_page", "enough"}
            /\ stop = "enough" => Len(collected) = WANTED
            /\ Len(collected) <= WANTED
            /\ collected = FirstOfStream)

\* 300 movies were returned, fewer than the API had given
C28_Witness ==
    /\ page_pc = "returned"
    /\ stop = "enough"
    /\ Len(collected) = WANTED
    /\ Len(stream) > WANTED
    /\ page >= 3

(***************************************************************************)
(* Properties of the row numbers.                                          *)
(***************************************************************************)
\* every result's index is a row number of the table, and the result is of
\* the document in that row
AddressesRows(res, frame) ==
    \A pos \in DOMAIN res :
        /\ res[pos].index \in 0..(Len(df) - 1)
        /\ res[pos].index + 1 \in DOMAIN frame
        /\ res[pos].combined_text = frame[res[pos].index + 1]["combined_text"]
        /\ res[pos].combined_text = df[res[pos].index + 1]["combined_text"]

\* C29: after the clustering stage the document table, the TF-IDF matrix,
\* the latent matrix and the label array have the same number of rows N,
\* row i of each being of the same document, and every index returned by
\* find_similar_incidents is in 0..N-1 and is the row of the result's
\* document in the table, in the process that fitted and in one that
\* loaded the files with load_all_for_search.
C29_RowsAligned ==
    /\ Len(tfidf_matrix) = Len(df)
    /\ Len(lsi_vectors) = Len(df)
    /\ Len(cluster_labels) = Len(df)
    /\ \A i \in DOMAIN df :
          /\ tfidf_matrix[i] = TransformText(tfidf_vectorizer, df[i]["preprocessed_text"])
          /\ lsi_vectors[i] = LsiTransform(lsi_model, tfidf_matrix[i])
          /\ cluster_labels[i] \in 0..(kmeans_model.n_clusters - 1)
    /\ phase = "answered" => AddressesRows(results, df)
    /\ (phase = "answered" /\ route = "load_all_for_search") =>
          /\ Len(loaded["processed_data.csv"].data) = Len(loaded["lsi_vectors.npy"].data)
          /\ AddressesRows(response.results, loaded["processed_data.csv"].data)

\* a probe of two documents or more, answered from reloaded files with a
\* row other than the first
C29_Witness ==
    /\ phase = "answered"
    /\ route = "load_all_for_search"
    /\ Len(df) >= 2
    /\ Len(response.results) >= 2
    /\ response.results[1].index > 0

(***************************************************************************)
(* Properties of /api/search.                                              *)
(***************************************************************************)
\* C30: /api/search decides in a fixed order: an empty or blank q gives 400
\* whether or not the models are loaded; else models that are not loaded
\* give 500 'Models not loaded'; else an exception in the search gives 500
\* with the text of the error; else 200 with the query and at most 20
\* results; and no outcome changes the loaded model globals.
C30_ApiSearchPriority ==
    [][(route' = "api" /\ phase' = "answered") =>
        /\ IF query' = <<>>
           THEN response'.status = 400
           ELSE IF bundle = "not_loaded"
           THEN response' = [status |-> 500, error |-> "Models not loaded"]
           ELSE IF ~Usable(df)
           THEN /\ response'.status = 500
                /\ response'.error \notin {"Models not loaded", "Query parameter q is required"}
           ELSE /\ response'.status = 200
                /\ response'.query = query'
                /\ Len(response'.results) <= WEB_TOP_K
                /\ response'.results =
                      find_similar_incidents(query', tfidf_vectorizer, lsi_model,
                                             lsi_vectors, df, WEB_TOP_K, tie_order)
        /\ UNCHANGED <<snapshot, bundle>>]_vars

\* a request with no query, sent to a server whose models are not loaded
C30_Witness ==
    /\ route = "api"
    /\ phase = "answered"
    /\ query = <<>>
    /\ bundle = "not_loaded"
    /\ response.status = 400

================================================================
